---- MODULE Spec2Model ----
(***************************************************************************)
(* Model of the Baxela route handlers: the in-memory stores of votes,      *)
(* elections, candidates and voter registrations, and the handlers that    *)
(* read and write them.                                                    *)
(*                                                                         *)
(* Strings that the code transforms (toLowerCase, trim) are sequences of   *)
(* one-character strings; strings that the code only compares are TLA+     *)
(* strings.  A wallet address is the hex part after "0x", shortened to     *)
(* one digit.  The clock is counted in half hours since 2024-09-20T00:00   *)
(* and reads one of the instants of Instants.                              *)
(***************************************************************************)
EXTENDS Integers, Sequences, FiniteSets, TLC

VARIABLES
    now,                   \* Date.now() / new Date()
    last,                  \* the last request handled and its response
    mockVotes,             \* votes/route.ts: Map<lowercased address, vote[]>
    mockElections_status,  \* admin/election-status: mockElections
    mockElections_create,  \* admin/create-election: mockElections
    mockElections_list,    \* elections/route.ts: mockElections
    mockCandidates_main,   \* candidates/route.ts: mockCandidates
    mockCandidates_id,     \* candidates/[id]/route.ts: mockCandidates
    mockCandidates_verify, \* admin/verify-candidate: mockCandidates
    mockRegistrations,     \* voter-registration/route.ts: mockRegistrations
    mockIncidents,         \* incidents/route.ts: mockIncidents
    requests,              \* per connection: the create request it carries and
                           \* where its handler stands
    premiumUsers,          \* analytics/premium: Map<lowercased address, access>
    payment                \* BasePay: the state of the component and of its hooks

vars == <<now, last, mockVotes, mockElections_status, mockElections_create,
          mockElections_list, mockCandidates_main, mockCandidates_id,
          mockCandidates_verify, mockRegistrations, mockIncidents, requests,
          premiumUsers, payment>>

voteVars == <<mockVotes>>
electionVars == <<mockElections_status, mockElections_create, mockElections_list>>
candidateVars == <<mockCandidates_main, mockCandidates_id, mockCandidates_verify>>
registrationVars == <<mockRegistrations>>
incidentVars == <<mockIncidents>>
requestVars == <<requests>>
premiumVars == <<premiumUsers>>
paymentVars == <<payment>>

-----------------------------------------------------------------------------
(* Strings *)

\* The value of a field the request body does not have.
Undefined == <<"undefined">>

\* JavaScript falsiness of an optional string: undefined or "".
Falsy(s) == s = Undefined \/ s = <<>>

UpperLetters ==
    <<"A", "B", "C", "D", "E", "F", "G", "H", "I", "J", "K", "L", "M",
      "N", "O", "P", "Q", "R", "S", "T", "U", "V", "W", "X", "Y", "Z">>

LowerLetters ==
    <<"a", "b", "c", "d", "e", "f", "g", "h", "i", "j", "k", "l", "m",
      "n", "o", "p", "q", "r", "s", "t", "u", "v", "w", "x", "y", "z">>

ToLowerChar(c) ==
    IF \E i \in 1..26 : UpperLetters[i] = c
    THEN LowerLetters[CHOOSE i \in 1..26 : UpperLetters[i] = c]
    ELSE c

\* String.prototype.toLowerCase
ToLowerCase(s) == [i \in 1..Len(s) |-> ToLowerChar(s[i])]

IsSpace(c) == c = " "

RECURSIVE TrimStart(_)
TrimStart(s) ==
    IF s = <<>> THEN <<>>
    ELSE IF IsSpace(Head(s)) THEN TrimStart(Tail(s)) ELSE s

RECURSIVE TrimEnd(_)
TrimEnd(s) ==
    IF s = <<>> THEN <<>>
    ELSE IF IsSpace(s[Len(s)]) THEN TrimEnd(SubSeq(s, 1, Len(s) - 1)) ELSE s

\* String.prototype.trim
Trim(s) == TrimEnd(TrimStart(s))

HexChars == {"0", "1", "2", "3", "4", "5", "a", "b", "c", "A", "B", "C"}

\* /^0x[a-fA-F0-9]{40}$/ (one hex digit in the model stands for the 40)
WalletRegexTest(s) ==
    /\ s # Undefined
    /\ Len(s) = 1
    /\ \A i \in 1..Len(s) : s[i] \in HexChars

\* The addresses of the seed data.
Addr1 == <<"1">>   \* 0x1234567890123456789012345678901234567890
Addr2 == <<"2">>   \* 0x2345678901234567890123456789012345678901
Addr3 == <<"3">>   \* 0x3456789012345678901234567890123456789012

-----------------------------------------------------------------------------
(* Clock *)

\* The instants the clock can read, in half hours since 2024-09-20T00:00:
\* before, at the start, inside, at the end and after each seeded election.
Instants == {0, 16, 28, 40, 1216, 1228, 1240, 2224, 2225, 2236, 2248, 2260}

\* Time passes between two requests: the clock moves on to an instant of I.
Tick(I) ==
    /\ \E t \in I : t > now /\ now' = t
    /\ UNCHANGED <<last, voteVars, electionVars, candidateVars, registrationVars, incidentVars, requestVars, premiumVars, paymentVars>>

\* A response: NextResponse.json(body, {status}).
Response(op, req, status, message, body) ==
    [op |-> op, req |-> req, status |-> status, message |-> message, body |-> body]

NoBody == <<>>

-----------------------------------------------------------------------------
(* votes/route.ts *)

activeElections == {"election-2024-national", "election-2024-provincial-wc"}

\* An activity check that accepts every election id.
isAnyElection(electionId) == TRUE

isElectionActive(electionId) == electionId \in activeElections

isVoterEligible(address, electionId) == TRUE

\* mockVotes.get(key) || []
VotesOf(votes, key) == IF key \in DOMAIN votes THEN votes[key] ELSE <<>>

\* A duplicate check that compares the wrong field of the stored vote.
hasVotedForCandidate(userVotes, electionId) ==
    \E i \in 1..Len(userVotes) : userVotes[i].candidateId = electionId

\* userVotes.some(vote => vote.electionId === electionId)
hasVoted(userVotes, electionId) ==
    \E i \in 1..Len(userVotes) : userVotes[i].electionId = electionId

\* mockVotes.set(key, value)
MapSet(m, key, value) ==
    [k \in DOMAIN m \cup {key} |-> IF k = key THEN value ELSE m[k]]

VoteElectionIds == {"election-2024-national", "election-2024-provincial-wc",
                    "election-2024-municipal-ct", ""}
VoteCandidateIds == {"candidate-anc-ramaphosa", ""}
VoterAddresses == {<<"a">>, <<"A">>, <<"b">>, Undefined}
RandomSuffixes == {"r1"}

\* A cast that stores the vote without asking whether the address has voted.
VotePOSTUnchecked(electionId, candidateId, voterAddress, rnd) ==
    LET key == ToLowerCase(voterAddress)
        vote == [id |-> <<now, rnd>>, electionId |-> electionId,
                 candidateId |-> candidateId, voterAddress |-> key,
                 timestamp |-> now, verified |-> TRUE]
    IN
    /\ mockVotes' = MapSet(mockVotes, key, Append(VotesOf(mockVotes, key), vote))
    /\ last' = Response("votePOST",
                        [electionId |-> electionId, candidateId |-> candidateId,
                         voterAddress |-> voterAddress],
                        200, "Vote cast successfully", vote)
    /\ UNCHANGED <<now, electionVars, candidateVars, registrationVars, incidentVars, premiumVars, paymentVars>>

\* POST /api/votes from the line after `await request.json()`, where the
\* handler resumes with the body, to its return: no await follows.
VotePOSTResumed(electionId, candidateId, voterAddress, rnd) ==
    LET req == [electionId |-> electionId, candidateId |-> candidateId,
                voterAddress |-> voterAddress]
        key == ToLowerCase(voterAddress)
        userVotes == VotesOf(mockVotes, key)
        vote == [id |-> <<now, rnd>>,
                 electionId |-> electionId,
                 candidateId |-> candidateId,
                 voterAddress |-> key,
                 timestamp |-> now,
                 verified |-> TRUE]
    IN
    /\ IF electionId = "" \/ candidateId = "" \/ Falsy(voterAddress)
       THEN /\ last' = Response("votePOST", req, 400,
                         "Missing required fields: electionId, candidateId, voterAddress", NoBody)
            /\ UNCHANGED mockVotes
       ELSE IF ~isElectionActive(electionId)
       THEN /\ last' = Response("votePOST", req, 400,
                         "Election is not currently active", NoBody)
            /\ UNCHANGED mockVotes
       ELSE IF ~isVoterEligible(voterAddress, electionId)
       THEN /\ last' = Response("votePOST", req, 403,
                         "Voter is not eligible for this election", NoBody)
            /\ UNCHANGED mockVotes
       ELSE IF hasVoted(userVotes, electionId)
       THEN /\ last' = Response("votePOST", req, 400,
                         "You have already voted in this election", NoBody)
            /\ UNCHANGED mockVotes
       ELSE /\ mockVotes' = MapSet(mockVotes, key, Append(userVotes, vote))
            /\ last' = Response("votePOST", req, 200, "Vote cast successfully", vote)
    /\ UNCHANGED <<now, electionVars, candidateVars, registrationVars, incidentVars, premiumVars, paymentVars>>

\* POST /api/votes, the body read with no other request handled meanwhile.
VotePOST(electionId, candidateId, voterAddress, rnd) ==
    /\ VotePOSTResumed(electionId, candidateId, voterAddress, rnd)
    /\ UNCHANGED requestVars

AdminKeys == {"admin-demo-key", "wrong-key"}
VoteIds == {"some-vote", ""}

\* PUT /api/votes
VotePUT(voteId, adminKey) ==
    LET req == [voteId |-> voteId, adminKey |-> adminKey] IN
    /\ IF adminKey # "admin-demo-key"
       THEN last' = Response("votePUT", req, 401, "Unauthorized", NoBody)
       ELSE last' = Response("votePUT", req, 200, "Vote updated successfully", NoBody)
    /\ UNCHANGED <<now, voteVars, electionVars, candidateVars, registrationVars, incidentVars, requestVars, premiumVars, paymentVars>>

\* An invalidation that empties the vote store.
VoteDELETEClearing(voteId, adminKey) ==
    LET req == [voteId |-> voteId, adminKey |-> adminKey] IN
    /\ IF adminKey # "admin-demo-key"
       THEN last' = Response("voteDELETE", req, 401, "Unauthorized", NoBody)
                /\ UNCHANGED mockVotes
       ELSE last' = Response("voteDELETE", req, 200, "Vote invalidated successfully", NoBody)
                /\ mockVotes' = <<>>
    /\ UNCHANGED <<now, electionVars, candidateVars, registrationVars, incidentVars, requestVars, premiumVars, paymentVars>>

\* DELETE /api/votes
VoteDELETE(voteId, adminKey) ==
    LET req == [voteId |-> voteId, adminKey |-> adminKey] IN
    /\ IF adminKey # "admin-demo-key"
       THEN last' = Response("voteDELETE", req, 401, "Unauthorized", NoBody)
       ELSE IF voteId = ""
       THEN last' = Response("voteDELETE", req, 400, "Vote ID is required", NoBody)
       ELSE last' = Response("voteDELETE", req, 200, "Vote invalidated successfully", NoBody)
    /\ UNCHANGED <<now, voteVars, electionVars, candidateVars, registrationVars, incidentVars, requestVars, premiumVars, paymentVars>>

\* GET /api/votes?address=
VoteGET(address) ==
    LET req == [address |-> address] IN
    /\ IF Falsy(address)
       THEN last' = Response("voteGET", req, 400, "Address parameter is required", NoBody)
       ELSE last' = Response("voteGET", req, 200, "", VotesOf(mockVotes, ToLowerCase(address)))
    /\ UNCHANGED <<now, voteVars, electionVars, candidateVars, registrationVars, incidentVars, requestVars, premiumVars, paymentVars>>

VoteInstants == {0, 16}

NextVotes ==
    \/ Tick(VoteInstants)
    \/ \E e \in VoteElectionIds, c \in VoteCandidateIds, a \in VoterAddresses,
          r \in RandomSuffixes : VotePOST(e, c, a, r)
    \/ \E v \in VoteIds, k \in AdminKeys : VotePUT(v, k)
    \/ \E v \in VoteIds, k \in AdminKeys : VoteDELETE(v, k)
    \/ \E a \in VoterAddresses : VoteGET(a)

-----------------------------------------------------------------------------
(* admin/election-status, admin/create-election, elections *)

ADMIN_ADDRESSES == {Addr1, Addr2}

\* An admin check that only looks whether an address was sent.
isAnyAddress(address) == address # <<>>

\* ADMIN_ADDRESSES.includes(address.toLowerCase())
isAdmin(address) == ToLowerCase(address) \in ADMIN_ADDRESSES

\* An invalid Date (getTime() is NaN): every comparison with it is false.
NaN == 0 - 1
IsNaN(d) == d = NaN
DateLt(a, b) == ~IsNaN(a) /\ ~IsNaN(b) /\ a < b
DateLe(a, b) == ~IsNaN(a) /\ ~IsNaN(b) /\ a <= b
DateGt(a, b) == DateLt(b, a)

\* Ten characters, the least a description may have.
Description10 == [i \in 1..10 |-> "d"]

\* The seed elections of admin/election-status and admin/create-election.
\* Titles and descriptions are shortened; polls are open 08:00 to 20:00.
SeedElections == <<
    [id |-> <<"national-2024">>, title |-> <<"N", "a", "t">>,
     description |-> Description10, type |-> "national",
     startDate |-> 2224, endDate |-> 2248, status |-> "draft",
     positions |-> << <<"P">> >>, totalVotes |-> 0, eligibleVoters |-> 50000000,
     createdBy |-> Addr1, createdAt |-> 0 - 12624],
    [id |-> <<"provincial-2024">>, title |-> <<"P", "r", "o">>,
     description |-> Description10, type |-> "provincial",
     startDate |-> 1216, endDate |-> 1240, status |-> "active",
     positions |-> << <<"G">> >>, totalVotes |-> 125000, eligibleVoters |-> 5000000,
     createdBy |-> Addr1, createdAt |-> 0 - 11952],
    [id |-> <<"municipal-2024">>, title |-> <<"M", "u", "n">>,
     description |-> Description10, type |-> "municipal",
     startDate |-> 16, endDate |-> 40, status |-> "completed",
     positions |-> << <<"M">> >>, totalVotes |-> 75000, eligibleVoters |-> 500000,
     createdBy |-> Addr2, createdAt |-> 0 - 11136] >>

\* The seed elections of elections/route.ts (candidates left out).
SeedElectionList == <<
    [id |-> <<"election-2024-national">>, status |-> "active"],
    [id |-> <<"election-2024-provincial-wc">>, status |-> "active"],
    [id |-> <<"election-2024-municipal-ct">>, status |-> "upcoming"] >>

\* Array.prototype.findIndex on the id: 0 when there is none (-1 in the code).
FindIndexById(list, id) ==
    IF \E i \in 1..Len(list) : list[i].id = id
    THEN CHOOSE i \in 1..Len(list) :
            /\ list[i].id = id
            /\ \A j \in 1..(i - 1) : list[j].id # id
    ELSE 0

validStatuses == {"draft", "active", "completed", "cancelled"}

validTransitions ==
    [s \in validStatuses |->
        CASE s = "draft" -> {"active", "cancelled"}
          [] s = "active" -> {"completed", "cancelled"}
          [] s = "completed" -> {}
          [] s = "cancelled" -> {"draft"}]

\* A transition check that only refuses the current status.
isAnyOtherStatus(currentStatus, newStatus) == newStatus # currentStatus

isValidStatusTransition(currentStatus, newStatus) ==
    currentStatus \in DOMAIN validTransitions
    /\ newStatus \in validTransitions[currentStatus]

\* startDate > now
BeforeStart(election, t) == DateGt(election.startDate, t)

\* An end-date check that compares the start date again.
AfterStartNotEnd(election, t) == DateLt(election.startDate, t) /\ FALSE

\* endDate < now
AfterEnd(election, t) == DateLt(election.endDate, t)

\* PUT /api/admin/election-status
ElectionStatusPUT(electionId, status, adminAddress) ==
    LET req == [electionId |-> electionId, status |-> status,
                adminAddress |-> adminAddress]
        electionIndex == FindIndexById(mockElections_status, electionId)
        election == mockElections_status[electionIndex]
        Reject(code, message) ==
            /\ last' = Response("electionStatusPUT", req, code, message, NoBody)
            /\ UNCHANGED mockElections_status
    IN
    /\ IF electionId = <<>> \/ status = "" \/ Falsy(adminAddress)
       THEN Reject(400, "Election ID, status, and admin address are required")
       ELSE IF status \notin validStatuses
       THEN Reject(400, "Invalid status value")
       ELSE IF ~isAdmin(adminAddress)
       THEN Reject(403, "Unauthorized: Admin access required")
       ELSE IF electionIndex = 0
       THEN Reject(404, "Election not found")
       ELSE IF ~isValidStatusTransition(election.status, status)
       THEN Reject(400, "Invalid status transition")
       ELSE IF status = "active" /\ BeforeStart(election, now)
       THEN Reject(400, "Cannot activate election before start date")
       ELSE IF status = "active" /\ AfterEnd(election, now)
       THEN Reject(400, "Cannot activate election after end date")
       ELSE /\ mockElections_status' =
                  [mockElections_status EXCEPT ![electionIndex].status = status]
            /\ last' = Response("electionStatusPUT", req, 200,
                                "Election status updated successfully",
                                [election EXCEPT !.status = status])
    /\ UNCHANGED <<now, voteVars, mockElections_create, mockElections_list,
                   candidateVars, registrationVars, incidentVars, requestVars, premiumVars, paymentVars>>

\* errors.push(message) when cond holds
PushIf(cond, message) == IF cond THEN <<message>> ELSE <<>>

LowerAlnum == {"a", "b", "c", "d", "t", "0", "1", "2", "3", "4", "5"}

\* .replace(/[^a-z0-9\s]/g, '')
RECURSIVE StripSymbols(_)
StripSymbols(s) ==
    IF s = <<>> THEN <<>>
    ELSE IF Head(s) \in LowerAlnum \/ IsSpace(Head(s))
         THEN <<Head(s)>> \o StripSymbols(Tail(s))
         ELSE StripSymbols(Tail(s))

\* .replace(/\s+/g, '-')
RECURSIVE DashSpaces(_)
DashSpaces(s) ==
    IF s = <<>> THEN <<>>
    ELSE IF IsSpace(Head(s))
         THEN <<"-">> \o DashSpaces(TrimStart(s))
         ELSE <<Head(s)>> \o DashSpaces(Tail(s))

\* .substring(0, n)
Substring0(s, n) == SubSeq(s, 1, IF Len(s) < n THEN Len(s) ELSE n)

\* new Date().getFullYear(): 2025 starts 103 days after 2024-09-20.
getFullYear(t) == IF t < 103 * 48 THEN 2024 ELSE 2025

\* Date.now().toString().slice(-4): the clock's milliseconds modulo 10000.
\* A half hour is 30 * 60 * 1000 ms.
NowSlice4(t) == ((t % 10000) * ((30 * 60 * 1000) % 10000)) % 10000

generateElectionId(title, type, t) ==
    <<type, Substring0(DashSpaces(StripSymbols(ToLowerCase(title))), 30),
      getFullYear(t), NowSlice4(t)>>

\* 60 * 60 * 1000 ms and 30 * 24 * 60 * 60 * 1000 ms, in half hours
oneHour == 2
thirtyDays == 30 * 24 * 2

validTypes == {"national", "provincial", "municipal"}

\* existingElection: some election has this title, compared in lower case
TitleExists(elections, title) ==
    \E i \in 1..Len(elections) :
        ToLowerCase(elections[i].title) = ToLowerCase(title)

\* typeof pos === 'string' && pos.trim().length > 0
ValidPositions(positions) ==
    SelectSeq(positions, LAMBDA pos : Len(Trim(pos)) > 0)

\* validateElectionData: the list of errors (isValid iff it is empty)
\* A duration test that only refuses an election that ends before it starts.
isNegative(duration) == duration < 0

\* duration < oneHour
isTooShort(duration) == duration < oneHour

\* duration > thirtyDays
isTooLong(duration) == duration > thirtyDays

validateElectionData(data, elections, t) ==
    LET duration == data.endDate - data.startDate IN
    PushIf(Falsy(data.title) \/ Trim(data.title) = <<>>, "Title is required")
 \o PushIf(~Falsy(data.title) /\ Trim(data.title) # <<>> /\ Len(data.title) < 3,
           "Title must be at least 3 characters long")
 \o PushIf(~Falsy(data.title) /\ Trim(data.title) # <<>> /\ Len(data.title) > 100,
           "Title must be less than 100 characters")
 \o PushIf(Falsy(data.description) \/ Trim(data.description) = <<>>,
           "Description is required")
 \o PushIf(~Falsy(data.description) /\ Trim(data.description) # <<>>
              /\ Len(data.description) < 10,
           "Description must be at least 10 characters long")
 \o PushIf(~Falsy(data.description) /\ Trim(data.description) # <<>>
              /\ Len(data.description) > 500,
           "Description must be less than 500 characters")
 \o PushIf(data.type \notin validTypes, "Invalid election type")
 \o PushIf(IsNaN(data.startDate), "Invalid start date")
 \o PushIf(DateLt(data.startDate, t), "Start date cannot be in the past")
 \o PushIf(IsNaN(data.endDate), "Invalid end date")
 \o PushIf(DateLe(data.endDate, data.startDate), "End date must be after start date")
 \o PushIf(~IsNaN(data.startDate) /\ ~IsNaN(data.endDate) /\ isTooShort(duration),
           "Election must be at least 1 hour long")
 \o PushIf(~IsNaN(data.startDate) /\ ~IsNaN(data.endDate) /\ ~isTooShort(duration)
              /\ isTooLong(duration),
           "Election cannot be longer than 30 days")
 \o PushIf(Len(data.positions) = 0, "At least one position is required")
 \o PushIf(Len(data.positions) # 0
              /\ Len(ValidPositions(data.positions)) # Len(data.positions),
           "All positions must be non-empty strings")
 \o PushIf(Len(data.positions) # 0 /\ Len(ValidPositions(data.positions)) > 10,
           "Maximum 10 positions allowed")
 \o PushIf(data.eligibleVoters < 1, "Eligible voters must be a positive integer")
 \o PushIf(data.eligibleVoters > 100000000, "Eligible voters cannot exceed 100 million")
 \o PushIf(TitleExists(elections, data.title),
           "An election with this title already exists")

\* data.title.toLowerCase() in the duplicate check throws a TypeError when the
\* body has no title (and the list has an election to compare with).
validateElectionDataThrows(data, elections) ==
    data.title = Undefined /\ Len(elections) > 0

\* The number of elections the model lets POST create-election add.
MaxCreatedElections == 2

\* POST /api/admin/create-election from the line after `await request.json()`, where the
\* handler resumes with the body, to its return: no await follows.
CreateElectionPOSTResumed(adminAddress, data) ==
    LET req == [adminAddress |-> adminAddress, title |-> data.title,
                startDate |-> data.startDate, endDate |-> data.endDate]
        errors == validateElectionData(data, mockElections_create, now)
        newElection ==
            [id |-> generateElectionId(data.title, data.type, now),
             title |-> Trim(data.title),
             description |-> Trim(data.description),
             type |-> data.type,
             startDate |-> data.startDate,
             endDate |-> data.endDate,
             status |-> "draft",
             positions |-> [i \in 1..Len(data.positions) |-> Trim(data.positions[i])],
             totalVotes |-> 0,
             eligibleVoters |-> data.eligibleVoters,
             createdBy |-> adminAddress,
             createdAt |-> now]
    IN
    /\ IF Falsy(adminAddress) \/ ~isAdmin(adminAddress)
       THEN /\ last' = Response("createElectionPOST", req, 403,
                                "Unauthorized: Admin access required", NoBody)
            /\ UNCHANGED mockElections_create
       ELSE IF validateElectionDataThrows(data, mockElections_create)
       THEN /\ last' = Response("createElectionPOST", req, 500,
                                "Failed to create election", NoBody)
            /\ UNCHANGED mockElections_create
       ELSE IF errors # <<>>
       THEN /\ last' = Response("createElectionPOST", req, 400,
                                "Validation failed", errors)
            /\ UNCHANGED mockElections_create
       ELSE /\ Len(mockElections_create) < Len(SeedElections) + MaxCreatedElections
            /\ mockElections_create' = Append(mockElections_create, newElection)
            /\ last' = Response("createElectionPOST", req, 201,
                                "Election created successfully", newElection)
    /\ UNCHANGED <<now, voteVars, mockElections_status, mockElections_list,
                   candidateVars, registrationVars, incidentVars, premiumVars, paymentVars>>

\* POST /api/admin/create-election, the body read with no other request handled meanwhile.
CreateElectionPOST(adminAddress, data) ==
    /\ CreateElectionPOSTResumed(adminAddress, data)
    /\ UNCHANGED requestVars

\* GET /api/elections
ElectionsGET ==
    /\ last' = Response("electionsGET", <<>>, 200, "", mockElections_list)
    /\ UNCHANGED <<now, voteVars, electionVars, candidateVars, registrationVars, incidentVars, requestVars, premiumVars, paymentVars>>

\* POST /api/elections: answers with a new election and stores nothing
ElectionsPOST(title) ==
    /\ IF Falsy(title)
       THEN last' = Response("electionsPOST", [title |-> title], 400,
                             "Missing required fields", NoBody)
       ELSE last' = Response("electionsPOST", [title |-> title], 200,
                             "Election created successfully",
                             [id |-> <<"election", now>>, title |-> title,
                              status |-> "upcoming", totalVotes |-> 0])
    /\ UNCHANGED <<now, voteVars, electionVars, candidateVars, registrationVars, incidentVars, requestVars, premiumVars, paymentVars>>

-----------------------------------------------------------------------------
(* candidates, candidates/[id], admin/verify-candidate *)

\* The seed candidates, the same in the three route modules (texts shortened).
SeedCandidates == <<
    [id |-> <<"1">>, name |-> <<"A">>, party |-> <<"p">>, position |-> <<"m">>,
     bio |-> <<"b">>, experience |-> <<"e">>, platform |-> <<"f">>,
     walletAddress |-> Addr1, verified |-> TRUE,
     registrationDate |-> 0 - 11952, electionId |-> <<"m", "2", "4">>],
    [id |-> <<"2">>, name |-> <<"B">>, party |-> <<"p">>, position |-> <<"m">>,
     bio |-> <<"b">>, experience |-> <<"e">>, platform |-> <<"f">>,
     walletAddress |-> Addr2, verified |-> TRUE,
     registrationDate |-> 0 - 11712, electionId |-> <<"m", "2", "4">>],
    [id |-> <<"3">>, name |-> <<"C">>, party |-> <<"p">>, position |-> <<"g">>,
     bio |-> <<"b">>, experience |-> <<"e">>, platform |-> <<"f">>,
     walletAddress |-> Addr3, verified |-> FALSE,
     registrationDate |-> 0 - 11136, electionId |-> <<"p", "2", "4">>] >>

requiredCandidateFields ==
    <<"name", "party", "position", "bio", "experience", "platform",
      "electionId", "walletAddress">>

\* !data[field] || data[field].trim() === ''
FieldMissing(data, field) ==
    field \notin DOMAIN data \/ Falsy(data[field]) \/ Trim(data[field]) = <<>>

\* `${field} is required`
RequiredMessage(field) ==
    CASE field = "name" -> "name is required"
      [] field = "party" -> "party is required"
      [] field = "position" -> "position is required"
      [] field = "bio" -> "bio is required"
      [] field = "experience" -> "experience is required"
      [] field = "platform" -> "platform is required"
      [] field = "electionId" -> "electionId is required"
      [] field = "walletAddress" -> "walletAddress is required"

\* validateCandidateData: the error message, "" for null
validateCandidateData(data) ==
    IF \E i \in 1..Len(requiredCandidateFields) :
            FieldMissing(data, requiredCandidateFields[i])
    THEN LET i == CHOOSE k \in 1..Len(requiredCandidateFields) :
                    /\ FieldMissing(data, requiredCandidateFields[k])
                    /\ \A j \in 1..(k - 1) :
                          ~FieldMissing(data, requiredCandidateFields[j])
         IN RequiredMessage(requiredCandidateFields[i])
    ELSE IF ~WalletRegexTest(data.walletAddress)
    THEN "Invalid wallet address format"
    ELSE ""

\* A wallet check that compares without lower-casing.
isWalletRegisteredExactCase(candidates, walletAddress) ==
    \E i \in 1..Len(candidates) : candidates[i].walletAddress = walletAddress

\* isWalletAlreadyRegistered(walletAddress) (no excludeId)
isWalletAlreadyRegistered(candidates, walletAddress) ==
    \E i \in 1..Len(candidates) :
        ToLowerCase(candidates[i].walletAddress) = ToLowerCase(walletAddress)

\* The number of candidates the model lets POST candidates add.
MaxCreatedCandidates == 2

\* POST /api/candidates from the line after `await request.json()`, where the
\* handler resumes with the body, to its return: no await follows.
CandidatePOSTResumed(body) ==
    LET req == [walletAddress |-> body.walletAddress]
        validationError == validateCandidateData(body)
        newCandidate ==
            [id |-> <<"ts", now>>,
             name |-> Trim(body.name),
             party |-> Trim(body.party),
             position |-> Trim(body.position),
             bio |-> Trim(body.bio),
             experience |-> Trim(body.experience),
             platform |-> Trim(body.platform),
             walletAddress |-> ToLowerCase(body.walletAddress),
             verified |-> FALSE,
             registrationDate |-> now,
             electionId |-> body.electionId]
    IN
    /\ IF validationError # ""
       THEN /\ last' = Response("candidatePOST", req, 400, validationError, NoBody)
            /\ UNCHANGED mockCandidates_main
       ELSE IF isWalletAlreadyRegistered(mockCandidates_main, body.walletAddress)
       THEN /\ last' = Response("candidatePOST", req, 400,
                  "This wallet address is already registered as a candidate", NoBody)
            /\ UNCHANGED mockCandidates_main
       ELSE /\ Len(mockCandidates_main) < Len(SeedCandidates) + MaxCreatedCandidates
            /\ mockCandidates_main' = Append(mockCandidates_main, newCandidate)
            /\ last' = Response("candidatePOST", req, 201,
                                "Candidate registered successfully", newCandidate)
    /\ UNCHANGED <<now, voteVars, electionVars, mockCandidates_id,
                   mockCandidates_verify, registrationVars, incidentVars, premiumVars, paymentVars>>

\* POST /api/candidates, the body read with no other request handled meanwhile.
CandidatePOST(body) ==
    /\ CandidatePOSTResumed(body)
    /\ UNCHANGED requestVars

\* GET /api/candidates/[id]
CandidateGET(id) ==
    LET i == FindIndexById(mockCandidates_id, id) IN
    /\ IF i = 0
       THEN last' = Response("candidateGET", [id |-> id], 404,
                             "Candidate not found", NoBody)
       ELSE last' = Response("candidateGET", [id |-> id], 200, "",
                             mockCandidates_id[i])
    /\ UNCHANGED <<now, voteVars, electionVars, candidateVars, registrationVars, incidentVars, requestVars, premiumVars, paymentVars>>

allowedFields ==
    <<"name", "party", "position", "bio", "experience", "platform", "profileImage">>

\* data[field] !== undefined && typeof data[field] === 'string' && data[field].trim() === ''
FieldBlank(data, field) ==
    field \in DOMAIN data /\ Trim(data[field]) = <<>>

\* `${field} cannot be empty`
EmptyMessage(field) ==
    CASE field = "name" -> "name cannot be empty"
      [] field = "party" -> "party cannot be empty"
      [] field = "position" -> "position cannot be empty"
      [] field = "bio" -> "bio cannot be empty"
      [] field = "experience" -> "experience cannot be empty"
      [] field = "platform" -> "platform cannot be empty"
      [] field = "profileImage" -> "profileImage cannot be empty"

\* validateUpdateData: the error message, "" for null
validateUpdateData(data) ==
    IF ~\E i \in 1..Len(allowedFields) : allowedFields[i] \in DOMAIN data
    THEN "At least one field must be provided for update"
    ELSE IF \E i \in 1..Len(allowedFields) : FieldBlank(data, allowedFields[i])
    THEN LET i == CHOOSE k \in 1..Len(allowedFields) :
                    /\ FieldBlank(data, allowedFields[k])
                    /\ \A j \in 1..(k - 1) : ~FieldBlank(data, allowedFields[j])
         IN EmptyMessage(allowedFields[i])
    ELSE ""

\* An ownership check that accepts every wallet.
isAnyWallet(candidate, walletAddress) == TRUE

\* isAuthorized(candidate, walletAddress)
isAuthorized(candidate, walletAddress) ==
    ToLowerCase(candidate.walletAddress) = ToLowerCase(walletAddress)

\* An update that spreads the patch over the candidate and protects nothing.
patchedCandidate(candidate, updateData) ==
    [f \in DOMAIN candidate \cup DOMAIN updateData |->
        IF f \in DOMAIN updateData THEN updateData[f] ELSE candidate[f]]

protectedFields == {"id", "walletAddress", "verified", "registrationDate", "electionId"}

\* { ...candidate, ...updateData, id: candidate.id, walletAddress: ..., ... }
updatedCandidate(candidate, updateData) ==
    [f \in DOMAIN candidate \cup DOMAIN updateData |->
        IF f \in protectedFields THEN candidate[f]
        ELSE IF f \in DOMAIN updateData THEN updateData[f]
        ELSE candidate[f]]

\* Array.prototype.splice(i, 1)
Splice1(list, i) == SubSeq(list, 1, i - 1) \o SubSeq(list, i + 1, Len(list))

\* PUT /api/candidates/[id]
CandidatePUT(id, walletAddress, updateData) ==
    LET req == [id |-> id, walletAddress |-> walletAddress]
        candidateIndex == FindIndexById(mockCandidates_id, id)
        candidate == mockCandidates_id[candidateIndex]
        validationError == validateUpdateData(updateData)
        Reject(code, message) ==
            /\ last' = Response("candidatePUT", req, code, message, NoBody)
            /\ UNCHANGED mockCandidates_id
    IN
    /\ IF candidateIndex = 0
       THEN Reject(404, "Candidate not found")
       ELSE IF Falsy(walletAddress) \/ ~isAuthorized(candidate, walletAddress)
       THEN Reject(403, "Unauthorized: You can only update your own profile")
       ELSE IF validationError # ""
       THEN Reject(400, validationError)
       ELSE /\ mockCandidates_id' =
                  [mockCandidates_id EXCEPT
                      ![candidateIndex] = updatedCandidate(candidate, updateData)]
            /\ last' = Response("candidatePUT", req, 200,
                                "Candidate profile updated successfully",
                                updatedCandidate(candidate, updateData))
    /\ UNCHANGED <<now, voteVars, electionVars, mockCandidates_main,
                   mockCandidates_verify, registrationVars, incidentVars, requestVars, premiumVars, paymentVars>>

\* DELETE /api/candidates/[id]
CandidateDELETE(id, walletAddress) ==
    LET req == [id |-> id, walletAddress |-> walletAddress]
        candidateIndex == FindIndexById(mockCandidates_id, id)
        candidate == mockCandidates_id[candidateIndex]
        Reject(code, message) ==
            /\ last' = Response("candidateDELETE", req, code, message, NoBody)
            /\ UNCHANGED mockCandidates_id
    IN
    /\ IF candidateIndex = 0
       THEN Reject(404, "Candidate not found")
       ELSE IF Falsy(walletAddress) \/ ~isAuthorized(candidate, walletAddress)
       THEN Reject(403, "Unauthorized: You can only delete your own registration")
       ELSE /\ mockCandidates_id' = Splice1(mockCandidates_id, candidateIndex)
            /\ last' = Response("candidateDELETE", req, 200,
                                "Candidate registration deleted successfully", NoBody)
    /\ UNCHANGED <<now, voteVars, electionVars, mockCandidates_main,
                   mockCandidates_verify, registrationVars, incidentVars, requestVars, premiumVars, paymentVars>>

\* A verified check that never finds the candidate verified.
isNeverVerified(candidate) == FALSE

\* if (candidate.verified)
isAlreadyVerified(candidate) == candidate.verified

\* POST /api/admin/verify-candidate
VerifyCandidatePOST(candidateId, adminAddress) ==
    LET req == [id |-> candidateId, adminAddress |-> adminAddress]
        candidateIndex == FindIndexById(mockCandidates_verify, candidateId)
        candidate == mockCandidates_verify[candidateIndex]
        Reject(code, message) ==
            /\ last' = Response("verifyCandidatePOST", req, code, message, NoBody)
            /\ UNCHANGED mockCandidates_verify
    IN
    /\ IF candidateId = <<>> \/ Falsy(adminAddress)
       THEN Reject(400, "Candidate ID and admin address are required")
       ELSE IF ~isAdmin(adminAddress)
       THEN Reject(403, "Unauthorized: Admin access required")
       ELSE IF candidateIndex = 0
       THEN Reject(404, "Candidate not found")
       ELSE IF isAlreadyVerified(candidate)
       THEN Reject(400, "Candidate is already verified")
       ELSE /\ mockCandidates_verify' =
                  [mockCandidates_verify EXCEPT ![candidateIndex].verified = TRUE]
            /\ last' = Response("verifyCandidatePOST", req, 200,
                                "Candidate verified successfully",
                                [candidate EXCEPT !.verified = TRUE])
    /\ UNCHANGED <<now, voteVars, electionVars, mockCandidates_main,
                   mockCandidates_id, registrationVars, incidentVars, requestVars, premiumVars, paymentVars>>

-----------------------------------------------------------------------------
(* voter-registration *)

\* Calendar dates of the clock's instants (local time, no time zone).
IsLeap(y) == (y % 4 = 0 /\ y % 100 # 0) \/ y % 400 = 0

DaysInMonth(y, m) ==
    IF m = 2 THEN (IF IsLeap(y) THEN 29 ELSE 28)
    ELSE IF m \in {4, 6, 9, 11} THEN 30 ELSE 31

RECURSIVE AddDays(_, _)
AddDays(date, n) ==
    IF n = 0 THEN date
    ELSE IF date.d < DaysInMonth(date.y, date.m)
         THEN AddDays([date EXCEPT !.d = @ + 1], n - 1)
    ELSE IF date.m < 12
         THEN AddDays([date EXCEPT !.m = @ + 1, !.d = 1], n - 1)
    ELSE AddDays([y |-> date.y + 1, m |-> 1, d |-> 1], n - 1)

\* new Date(): the calendar date of instant t (48 half hours a day)
Today(t) == AddDays([y |-> 2024, m |-> 9, d |-> 20], t \div 48)

\* A dateOfBirth of the request body: missing, not a date, or a date.
NoDate == [kind |-> "missing", y |-> 0, m |-> 0, d |-> 0]
InvalidDate == [kind |-> "invalid", y |-> 0, m |-> 0, d |-> 0]
DateOfBirth(y, m, d) == [kind |-> "date", y |-> y, m |-> m, d |-> d]

\* today.getFullYear() - birthDate.getFullYear(), less one before the birthday
Age(birthDate, today) ==
    LET age == today.y - birthDate.y
        monthDiff == today.m - birthDate.m
    IN IF monthDiff < 0 \/ (monthDiff = 0 /\ today.d < birthDate.d)
       THEN age - 1 ELSE age

\* /^[^\s@]+@[^\s@]+\.[^\s@]+$/
emailRegexTest(s) ==
    /\ \A i \in 1..Len(s) : ~IsSpace(s[i])
    /\ Cardinality({i \in 1..Len(s) : s[i] = "@"}) = 1
    /\ \E at \in 2..Len(s) :
          /\ s[at] = "@"
          /\ \E dot \in (at + 2)..(Len(s) - 1) : s[dot] = "."

Digits == {"0", "1", "2", "3", "4", "5", "6", "7", "8", "9"}

\* .replace(/[\s\-\(\)]/g, '')
StripPhonePunctuation(s) ==
    SelectSeq(s, LAMBDA c : ~IsSpace(c) /\ c \notin {"-", "(", ")"})

\* /^[\+]?[1-9][\d]{0,15}$/
phoneRegexTest(s) ==
    LET body == IF s # <<>> /\ Head(s) = "+" THEN Tail(s) ELSE s IN
    /\ Len(body) >= 1 /\ Len(body) <= 16
    /\ body[1] \in Digits \ {"0"}
    /\ \A i \in 2..Len(body) : body[i] \in Digits

\* !data[field]?.toString().trim()
Blank(s) == Falsy(s) \/ Trim(s) = <<>>

\* The seed registrations (texts shortened; US stands for 'United States').
SeedRegistrations == <<
    [id |-> <<"voter-001">>, walletAddress |-> Addr1,
     firstName |-> <<"J">>, lastName |-> <<"D">>,
     dateOfBirth |-> DateOfBirth(1990, 5, 15),
     nationalId |-> <<"S", "S", "N", "1", "2">>,
     email |-> <<"j", "@", "e", ".", "c">>,
     phoneNumber |-> <<"+", "1", "-", "5">>,
     address |-> [street |-> <<"s">>, city |-> <<"c">>, state |-> <<"N", "Y">>,
                  zipCode |-> <<"1">>, country |-> <<"U", "S">>],
     registrationDate |-> 0 - 11952,
     verificationStatus |-> "verified",
     eligibleElections |-> <<"national-2024", "provincial-2024">>,
     verificationNotes |-> "",
     lastUpdated |-> 0 - 11712],
    [id |-> <<"voter-002">>, walletAddress |-> Addr2,
     firstName |-> <<"J">>, lastName |-> <<"S">>,
     dateOfBirth |-> DateOfBirth(1985, 8, 22),
     nationalId |-> <<"S", "S", "N", "9", "8">>,
     email |-> <<"s", "@", "e", ".", "c">>,
     phoneNumber |-> <<"+", "1", "-", "6">>,
     address |-> [street |-> <<"s">>, city |-> <<"c">>, state |-> <<"C", "A">>,
                  zipCode |-> <<"9">>, country |-> <<"U", "S">>],
     registrationDate |-> 0 - 11136,
     verificationStatus |-> "pending",
     eligibleElections |-> <<>>,
     verificationNotes |-> "",
     lastUpdated |-> 0 - 11136] >>

\* The registrations a new one duplicates: find() returns the first of them.
IsDuplicateOf(reg, data) ==
    \/ ToLowerCase(reg.walletAddress) = ToLowerCase(data.walletAddress)
    \/ reg.nationalId = data.nationalId
    \/ ToLowerCase(reg.email) = ToLowerCase(data.email)

\* The duplicate errors, from the first registration that find() returns.
DuplicateErrors(registrations, data) ==
    IF \E i \in 1..Len(registrations) : IsDuplicateOf(registrations[i], data)
    THEN LET i == CHOOSE k \in 1..Len(registrations) :
                    /\ IsDuplicateOf(registrations[k], data)
                    /\ \A j \in 1..(k - 1) : ~IsDuplicateOf(registrations[j], data)
             existingRegistration == registrations[i]
         IN PushIf(ToLowerCase(existingRegistration.walletAddress)
                      = ToLowerCase(data.walletAddress),
                   "Wallet address already registered")
         \o PushIf(existingRegistration.nationalId = data.nationalId,
                   "National ID already registered")
         \o PushIf(ToLowerCase(existingRegistration.email) = ToLowerCase(data.email),
                   "Email address already registered")
    ELSE <<>>

\* validateRegistrationData: the list of errors (isValid iff it is empty)
validateRegistrationData(data, registrations, t) ==
    PushIf(Blank(data.walletAddress), "wallet address is required")
 \o PushIf(Blank(data.firstName), "first name is required")
 \o PushIf(Blank(data.lastName), "last name is required")
 \o PushIf(data.dateOfBirth.kind = "missing", "date of birth is required")
 \o PushIf(Blank(data.nationalId), "national id is required")
 \o PushIf(Blank(data.email), "email is required")
 \o PushIf(Blank(data.phoneNumber), "phone number is required")
 \o PushIf(Blank(data.street), "street is required")
 \o PushIf(Blank(data.city), "city is required")
 \o PushIf(Blank(data.state), "state is required")
 \o PushIf(Blank(data.zipCode), "zip code is required")
 \o PushIf(Blank(data.country), "country is required")
 \o PushIf(~Falsy(data.email) /\ ~emailRegexTest(data.email), "Invalid email format")
 \o PushIf(~Falsy(data.walletAddress) /\ ~WalletRegexTest(data.walletAddress),
           "Invalid wallet address format")
 \o PushIf(data.dateOfBirth.kind = "date" /\ Age(data.dateOfBirth, Today(t)) < 18,
           "Must be at least 18 years old to register")
 \o PushIf(~Falsy(data.nationalId) /\ Len(data.nationalId) < 5,
           "National ID must be at least 5 characters")
 \o PushIf(~Falsy(data.phoneNumber)
              /\ ~phoneRegexTest(StripPhonePunctuation(data.phoneNumber)),
           "Invalid phone number format")
 \o DuplicateErrors(registrations, data)

\* The duplicate check calls toLowerCase() on data.walletAddress and data.email:
\* a TypeError when the body lacks one of them and a registration is stored.
validateRegistrationDataThrows(data, registrations) ==
    /\ Len(registrations) > 0
    /\ (data.walletAddress = Undefined \/ data.email = Undefined)

municipalStates == {<<"N", "Y">>, <<"C", "A">>, <<"T", "X">>, <<"F", "L">>}

\* An eligibility rule that adds the municipal election for the listed states
\* of any country.
determineEligibleByState(address) ==
    <<"national-2024">>
 \o (IF address.country = <<"U", "S">> THEN <<"provincial-2024">> ELSE <<>>)
 \o (IF address.state \in municipalStates THEN <<"municipal-2024">> ELSE <<>>)

determineEligibleElections(address) ==
    <<"national-2024">>
 \o (IF address.country = <<"U", "S">>
     THEN <<"provincial-2024">>
          \o (IF address.state \in municipalStates THEN <<"municipal-2024">> ELSE <<>>)
     ELSE <<>>)

\* The number of registrations the model lets POST voter-registration add.
MaxCreatedRegistrations == 1

\* POST /api/voter-registration from the line after `await request.json()`, where the
\* handler resumes with the body, to its return: no await follows.
RegistrationPOSTResumed(body, rnd) ==
    LET req == [walletAddress |-> body.walletAddress,
                nationalId |-> body.nationalId, email |-> body.email,
                dateOfBirth |-> body.dateOfBirth]
        errors == validateRegistrationData(body, mockRegistrations, now)
        newRegistration ==
            [id |-> <<"voter", now, rnd>>,
             walletAddress |-> ToLowerCase(body.walletAddress),
             firstName |-> Trim(body.firstName),
             lastName |-> Trim(body.lastName),
             dateOfBirth |-> body.dateOfBirth,
             nationalId |-> Trim(body.nationalId),
             email |-> Trim(ToLowerCase(body.email)),
             phoneNumber |-> Trim(body.phoneNumber),
             address |-> [street |-> Trim(body.street), city |-> Trim(body.city),
                          state |-> Trim(body.state), zipCode |-> Trim(body.zipCode),
                          country |-> Trim(body.country)],
             registrationDate |-> now,
             verificationStatus |-> "pending",
             eligibleElections |-> <<>>,
             verificationNotes |-> "",
             lastUpdated |-> now]
    IN
    /\ IF validateRegistrationDataThrows(body, mockRegistrations)
       THEN /\ last' = Response("registrationPOST", req, 500,
                                "Failed to create voter registration", NoBody)
            /\ UNCHANGED mockRegistrations
       ELSE IF errors # <<>>
       THEN /\ last' = Response("registrationPOST", req, 400,
                                "Validation failed", errors)
            /\ UNCHANGED mockRegistrations
       ELSE /\ Len(mockRegistrations) < Len(SeedRegistrations) + MaxCreatedRegistrations
            /\ mockRegistrations' = Append(mockRegistrations, newRegistration)
            /\ last' = Response("registrationPOST", req, 201,
                                "Registration submitted successfully", newRegistration)
    /\ UNCHANGED <<now, voteVars, electionVars, candidateVars, incidentVars, premiumVars, paymentVars>>

\* POST /api/voter-registration, the body read with no other request handled meanwhile.
RegistrationPOST(body, rnd) ==
    /\ RegistrationPOSTResumed(body, rnd)
    /\ UNCHANGED requestVars

validVerificationStatuses == {"pending", "verified", "rejected"}

\* `Registration ${verificationStatus} successfully`
StatusMessage(verificationStatus) ==
    CASE verificationStatus = "pending" -> "Registration pending successfully"
      [] verificationStatus = "verified" -> "Registration verified successfully"
      [] verificationStatus = "rejected" -> "Registration rejected successfully"

\* PUT /api/voter-registration
RegistrationPUT(registrationId, verificationStatus, verificationNotes, adminAddress) ==
    LET req == [id |-> registrationId, verificationStatus |-> verificationStatus,
                adminAddress |-> adminAddress]
        registrationIndex == FindIndexById(mockRegistrations, registrationId)
        registration == mockRegistrations[registrationIndex]
        updatedRegistration ==
            [registration EXCEPT
                !.verificationStatus = verificationStatus,
                !.verificationNotes = verificationNotes,
                !.eligibleElections =
                    IF verificationStatus = "verified"
                    THEN determineEligibleElections(registration.address)
                    ELSE <<>>,
                !.lastUpdated = now]
        Reject(code, message) ==
            /\ last' = Response("registrationPUT", req, code, message, NoBody)
            /\ UNCHANGED mockRegistrations
    IN
    /\ IF registrationId = <<>> \/ verificationStatus = ""
       THEN Reject(400, "Registration ID and verification status are required")
       ELSE IF verificationStatus \notin validVerificationStatuses
       THEN Reject(400, "Invalid verification status")
       ELSE IF registrationIndex = 0
       THEN Reject(404, "Registration not found")
       ELSE /\ mockRegistrations' =
                  [mockRegistrations EXCEPT ![registrationIndex] = updatedRegistration]
            /\ last' = Response("registrationPUT", req, 200,
                                StatusMessage(verificationStatus), updatedRegistration)
    /\ UNCHANGED <<now, voteVars, electionVars, candidateVars, incidentVars, requestVars, premiumVars, paymentVars>>

\* findIndex of DELETE: by id, or by wallet address in lower case
FindRegistrationIndex(registrations, registrationId, walletAddress) ==
    LET Hit(i) ==
            \/ registrationId # <<>> /\ registrations[i].id = registrationId
            \/ ~Falsy(walletAddress)
               /\ ToLowerCase(registrations[i].walletAddress) = ToLowerCase(walletAddress)
    IN IF \E i \in 1..Len(registrations) : Hit(i)
       THEN CHOOSE i \in 1..Len(registrations) :
                Hit(i) /\ \A j \in 1..(i - 1) : ~Hit(j)
       ELSE 0

\* DELETE /api/voter-registration
RegistrationDELETE(registrationId, walletAddress) ==
    LET req == [id |-> registrationId, walletAddress |-> walletAddress]
        registrationIndex ==
            FindRegistrationIndex(mockRegistrations, registrationId, walletAddress)
        Reject(code, message) ==
            /\ last' = Response("registrationDELETE", req, code, message, NoBody)
            /\ UNCHANGED mockRegistrations
    IN
    /\ IF registrationId = <<>> /\ Falsy(walletAddress)
       THEN Reject(400, "Registration ID or wallet address is required")
       ELSE IF registrationIndex = 0
       THEN Reject(404, "Registration not found")
       ELSE /\ mockRegistrations' = Splice1(mockRegistrations, registrationIndex)
            /\ last' = Response("registrationDELETE", req, 200,
                                "Registration deleted successfully", NoBody)
    /\ UNCHANGED <<now, voteVars, electionVars, candidateVars, incidentVars, requestVars, premiumVars, paymentVars>>

-----------------------------------------------------------------------------
(* Incidents: src/unnamed/part_004 (incidents route) *)

\* String.prototype.includes
Includes(s, keyword) ==
    \E i \in 0..(Len(s) - Len(keyword)) : SubSeq(s, i + 1, i + Len(keyword)) = keyword

criticalKeywords ==
    {<<"v", "i", "o", "l", "e", "n", "c", "e">>, <<"t", "h", "r", "e", "a", "t">>,
     <<"w", "e", "a", "p", "o", "n">>, <<"a", "s", "s", "a", "u", "l", "t">>,
     <<"e", "m", "e", "r", "g", "e", "n", "c", "y">>}

highKeywords ==
    {<<"i", "n", "t", "i", "m", "i", "d", "a", "t", "i", "o", "n">>,
     <<"m", "a", "l", "f", "u", "n", "c", "t", "i", "o", "n">>,
     <<"t", "a", "m", "p", "e", "r", "i", "n", "g">>, <<"f", "r", "a", "u", "d">>}

mediumKeywords ==
    {<<"d", "e", "l", "a", "y">>, <<"c", "o", "n", "f", "u", "s", "i", "o", "n">>,
     <<"t", "e", "c", "h", "n", "i", "c", "a", "l">>,
     <<"e", "q", "u", "i", "p", "m", "e", "n", "t">>}

\* keywords.some(keyword => lowerDescription.includes(keyword))
SomeIncluded(keywords, lowerDescription) ==
    \E keyword \in keywords : Includes(lowerDescription, keyword)

\* A severity rule that scans the description as written, in its own letter case.
determineSeverityAsWritten(category, description) ==
    IF SomeIncluded(criticalKeywords, description) THEN "critical"
    ELSE IF category = "violence" \/ category = "voter_intimidation" THEN "critical"
    ELSE IF SomeIncluded(highKeywords, description) THEN "high"
    ELSE IF SomeIncluded(mediumKeywords, description) THEN "medium"
    ELSE IF category = "technical_issues" THEN "medium"
    ELSE IF category = "irregularities" THEN "high"
    ELSE "low"

\* A severity rule that asks the category before the high and medium keywords.
determineSeverityCategoryFirst(category, description) ==
    LET lowerDescription == ToLowerCase(description) IN
    IF SomeIncluded(criticalKeywords, lowerDescription) THEN "critical"
    ELSE IF category = "violence" \/ category = "voter_intimidation" THEN "critical"
    ELSE IF category = "technical_issues" THEN "medium"
    ELSE IF category = "irregularities" THEN "high"
    ELSE IF SomeIncluded(highKeywords, lowerDescription) THEN "high"
    ELSE IF SomeIncluded(mediumKeywords, lowerDescription) THEN "medium"
    ELSE "low"

determineSeverity(category, description) ==
    LET lowerDescription == ToLowerCase(description) IN
    IF SomeIncluded(criticalKeywords, lowerDescription) THEN "critical"
    ELSE IF category = "violence" \/ category = "voter_intimidation" THEN "critical"
    ELSE IF SomeIncluded(highKeywords, lowerDescription) THEN "high"
    ELSE IF SomeIncluded(mediumKeywords, lowerDescription) THEN "medium"
    ELSE IF category = "technical_issues" THEN "medium"
    ELSE IF category = "irregularities" THEN "high"
    ELSE "low"

validCategories ==
    {"voter_intimidation", "technical_issues", "irregularities", "violence", "other"}

validSeverities == {"low", "medium", "high", "critical"}

\* validateIncidentData: the list of errors (isValid iff it is empty).  A
\* severity of "" stands for a body without severity.
validateIncidentData(data) ==
    PushIf(Blank(data.title), "Title is required")
 \o PushIf(~Blank(data.title) /\ Len(data.title) < 5,
           "Title must be at least 5 characters long")
 \o PushIf(~Blank(data.title) /\ Len(data.title) >= 5 /\ Len(data.title) > 100,
           "Title must be less than 100 characters")
 \o PushIf(Blank(data.description), "Description is required")
 \o PushIf(~Blank(data.description) /\ Len(data.description) < 10,
           "Description must be at least 10 characters long")
 \o PushIf(~Blank(data.description) /\ Len(data.description) >= 10
              /\ Len(data.description) > 1000,
           "Description must be less than 1000 characters")
 \o PushIf(Blank(data.location), "Location is required")
 \o PushIf(~Blank(data.location) /\ Len(data.location) < 5,
           "Location must be at least 5 characters long")
 \o PushIf(Blank(data.reportedBy), "Reporter wallet address is required")
 \o PushIf(~Blank(data.reportedBy) /\ ~WalletRegexTest(data.reportedBy),
           "Invalid wallet address format")
 \o PushIf(data.category \notin validCategories, "Invalid category")
 \o PushIf(data.severity # "" /\ data.severity \notin validSeverities,
           "Invalid severity level")

\* geocodeLocation: the city of locationMap the location names, or random
\* coordinates (two of the ten cities are kept).
geocodeLocation(location) ==
    LET lowerLocation == ToLowerCase(location) IN
    IF Includes(lowerLocation, <<"m", "i", "a", "m", "i">>) THEN "miami"
    ELSE IF Includes(lowerLocation, <<"b", "o", "s", "t", "o", "n">>) THEN "boston"
    ELSE "random"

\* An incident record; "" stands for an optional field that is absent, and
\* Undefined for an absent attachments list.
Incident(id, category, description, reportedBy, timestamp, status, severity, verified, verificationNotes, assignedTo, lastUpdated, ipfsHash) ==
    [id |-> id, title |-> <<"T", "i", "t", "l", "e">>, category |-> category,
     location |-> <<"P", "l", "a", "c", "e">>, coordinates |-> "seed",
     description |-> description, reportedBy |-> reportedBy,
     timestamp |-> timestamp, status |-> status, severity |-> severity,
     verified |-> verified, attachments |-> Undefined,
     verificationNotes |-> verificationNotes, assignedTo |-> assignedTo,
     lastUpdated |-> lastUpdated, ipfsHash |-> ipfsHash]

\* The seed incidents (titles, locations and descriptions shortened; each
\* description keeps the keyword the full text has, if any).
SeedIncidents == <<
    Incident(<<"incident-001">>, "technical_issues",
             <<"l", "o", "n", "g", " ", "d", "e", "l", "a", "y", "s">>,
             Addr1, 2229, "investigating", "high", TRUE, "", "admin-001", 2230,
             "QmTestHash1"),
    Incident(<<"incident-002">>, "voter_intimidation",
             <<"i", "n", "t", "i", "m", "i", "d", "a", "t", "i", "n", "g">>,
             Addr2, 2226, "resolved", "critical", TRUE, "Verified", "admin-002", 2239,
             "QmTestHash5"),
    Incident(<<"incident-003">>, "irregularities",
             <<"b", "o", "x", " ", "t", "a", "m", "p", "e", "r", "e", "d">>,
             Addr3, 2236, "pending", "high", FALSE, "", "", 2236, ""),
    Incident(<<"incident-004">>, "technical_issues",
             <<"n", "o", " ", "e", "q", "u", "i", "p", "m", "e", "n", "t">>,
             <<"4">>, 2231, "resolved", "medium", TRUE, "Power restored", "admin-001",
             2234, ""),
    Incident(<<"incident-005">>, "irregularities",
             <<"u", "n", "u", "s", "u", "a", "l", " ", "a", "c", "t", "s">>,
             <<"5">>, 2240, "investigating", "medium", FALSE, "", "admin-003", 2241, "")
    >>

\* `incident-${timestamp}-${random}`
generateIncidentId(t, rnd) == <<"incident", t, rnd>>

\* The number of incidents the model lets POST incidents add.
MaxCreatedIncidents == 1

\* The attachment hashes as if no upload could fail: one hash per file.
AttachmentHashesOfAllFiles(totalFiles, stored) ==
    [i \in 1..totalFiles |-> <<"QmFile", i>>]

\* The hashes POST collects: files are uploaded in the order videos, images,
\* documents; the hash of a file ipfsService.uploadFile stored is pushed, a
\* file whose upload throws is skipped.  The files are numbered in upload
\* order and stored is the set of those the pinning service accepts.
AttachmentHashes(totalFiles, stored) ==
    LET hashOf(i) == <<"QmFile", i>>
        allFiles == [i \in 1..totalFiles |-> hashOf(i)]
    IN SelectSeq(allFiles, LAMBDA hash : hash[2] \in stored)

\* POST /api/incidents.  totalFiles files come with the request, the pinning
\* service stores those in uploaded, pinned tells whether uploadIncidentData
\* succeeds.
IncidentPOST(body, totalFiles, uploaded, pinned, rnd) ==
    LET req == [description |-> body.description, category |-> body.category,
                severity |-> body.severity, totalFiles |-> totalFiles,
                uploaded |-> uploaded, pinned |-> pinned]
        attachmentHashes == AttachmentHashes(totalFiles, uploaded)
        errors == validateIncidentData(body)
        severity == IF body.severity # "" THEN body.severity
                    ELSE determineSeverity(body.category, body.description)
        newIncident ==
            [id |-> generateIncidentId(now, rnd),
             title |-> Trim(body.title),
             category |-> body.category,
             location |-> Trim(body.location),
             coordinates |-> geocodeLocation(body.location),
             description |-> Trim(body.description),
             reportedBy |-> ToLowerCase(body.reportedBy),
             timestamp |-> now,
             status |-> "pending",
             severity |-> severity,
             verified |-> FALSE,
             attachments |-> IF totalFiles > 0 THEN attachmentHashes
                             ELSE Undefined,
             verificationNotes |-> "",
             assignedTo |-> "",
             lastUpdated |-> now,
             ipfsHash |-> IF pinned THEN "QmIncident" ELSE ""]
    IN
    /\ uploaded \subseteq 1..totalFiles
    /\ IF errors # <<>>
       THEN /\ last' = Response("incidentPOST", req, 400, "Validation failed", errors)
            /\ UNCHANGED mockIncidents
       ELSE /\ Len(mockIncidents) < Len(SeedIncidents) + MaxCreatedIncidents
            /\ mockIncidents' = Append(mockIncidents, newIncident)
            /\ last' = Response("incidentPOST", req, 201,
                    "Incident reported successfully",
                    [incident |-> newIncident,
                     ipfsHash |-> IF pinned THEN "QmIncident" ELSE "null",
                     attachments |->
                        [total |-> Len(attachmentHashes),
                         hashes |-> attachmentHashes,
                         uploaded |-> IF totalFiles > 0
                                      THEN <<Len(attachmentHashes), totalFiles>>
                                      ELSE <<"No files uploaded">>]])
    /\ UNCHANGED <<now, voteVars, electionVars, candidateVars, registrationVars, requestVars, premiumVars, paymentVars>>

\* PUT /api/incidents.  "" stands for a field the body does not have,
\* "undefined" for a body without verified.
IncidentPUT(incidentId, status, verified, verificationNotes, assignedTo) ==
    LET req == [id |-> incidentId, status |-> status, verified |-> verified]
        incidentIndex == FindIndexById(mockIncidents, incidentId)
        incident == mockIncidents[incidentIndex]
        updatedIncident ==
            [incident EXCEPT
                !.status = IF status # "" THEN status ELSE @,
                !.verified = IF verified # "undefined" THEN verified = "true" ELSE @,
                !.verificationNotes = IF verificationNotes # ""
                                      THEN verificationNotes ELSE @,
                !.assignedTo = IF assignedTo # "" THEN assignedTo ELSE @,
                !.lastUpdated = now]
    IN
    /\ IF incidentId = <<>>
       THEN /\ last' = Response("incidentPUT", req, 400, "Incident ID is required", NoBody)
            /\ UNCHANGED mockIncidents
       ELSE IF incidentIndex = 0
       THEN /\ last' = Response("incidentPUT", req, 404, "Incident not found", NoBody)
            /\ UNCHANGED mockIncidents
       ELSE /\ mockIncidents' = [mockIncidents EXCEPT ![incidentIndex] = updatedIncident]
            /\ last' = Response("incidentPUT", req, 200,
                                "Incident updated successfully", updatedIncident)
    /\ UNCHANGED <<now, voteVars, electionVars, candidateVars, registrationVars, requestVars, premiumVars, paymentVars>>

\* DELETE /api/incidents?id=
IncidentDELETE(incidentId) ==
    LET req == [id |-> incidentId]
        incidentIndex == FindIndexById(mockIncidents, incidentId)
    IN
    /\ IF incidentId = <<>>
       THEN /\ last' = Response("incidentDELETE", req, 400,
                                "Incident ID is required", NoBody)
            /\ UNCHANGED mockIncidents
       ELSE IF incidentIndex = 0
       THEN /\ last' = Response("incidentDELETE", req, 404, "Incident not found", NoBody)
            /\ UNCHANGED mockIncidents
       ELSE /\ mockIncidents' = Splice1(mockIncidents, incidentIndex)
            /\ last' = Response("incidentDELETE", req, 200,
                                "Incident deleted successfully", NoBody)
    /\ UNCHANGED <<now, voteVars, electionVars, candidateVars, registrationVars, requestVars, premiumVars, paymentVars>>

\* The payload POST pins for an incident (ipfsData): the fields of the record
\* as created; JSON drops coordinates and attachments when undefined.
ipfsDataOf(incident) ==
    [id |-> incident.id, title |-> incident.title, category |-> incident.category,
     location |-> incident.location, coordinates |-> incident.coordinates,
     description |-> incident.description, reportedBy |-> incident.reportedBy,
     timestamp |-> incident.timestamp, severity |-> incident.severity]
    @@ (IF incident.attachments # Undefined
        THEN [attachments |-> incident.attachments] ELSE <<>>)

\* What ipfsService.getIncidentData can do for the hash of an incident: throw,
\* return the payload pinned for it, or return a JSON object without any of
\* the fields.
FetchOutcomes == {"fail", "ok", "empty"}

getIncidentData(incident, outcome) ==
    IF outcome = "ok" THEN ipfsDataOf(incident) ELSE <<>>

\* ipfsData.field || incident.field
OrLocal(ipfsData, incident, field) ==
    IF field \in DOMAIN ipfsData THEN ipfsData[field] ELSE incident[field]

\* The record tagged as if the fetch of its payload had failed.
enhancedAsIfAllFailed(incident, outcome) ==
    [dataSource |-> "local_only", ipfsError |-> "Failed to fetch from IPFS"]
        @@ incident

\* The record GET returns for one incident when includeIpfs is set: merged
\* with the fetched payload, or the local record tagged local_only, with
\* ipfsError when the fetch threw.  (The callback catches every error of the
\* fetch, so no promise of Promise.allSettled is rejected.)
enhancedIncident(incident, outcome) ==
    IF incident.ipfsHash = ""
    THEN [dataSource |-> "local_only"] @@ incident
    ELSE IF outcome = "fail"
    THEN [dataSource |-> "local_only", ipfsError |-> "Failed to fetch from IPFS"]
            @@ incident
    ELSE LET ipfsData == getIncidentData(incident, outcome) IN
         [dataSource |-> "ipfs_enhanced", ipfsData |-> ipfsData]
            @@ [incident EXCEPT
                    !.title = OrLocal(ipfsData, incident, "title"),
                    !.description = OrLocal(ipfsData, incident, "description"),
                    !.location = OrLocal(ipfsData, incident, "location"),
                    !.coordinates = OrLocal(ipfsData, incident, "coordinates"),
                    !.category = OrLocal(ipfsData, incident, "category"),
                    !.severity = OrLocal(ipfsData, incident, "severity"),
                    !.attachments = OrLocal(ipfsData, incident, "attachments")]

\* The incidents with an ipfsHash, for which GET fetches a payload.
HashedIds(list) == {list[i].id : i \in {j \in 1..Len(list) : list[j].ipfsHash # ""}}

\* Array.prototype.sort with (a, b) => b.timestamp - a.timestamp: newest
\* first, records of one timestamp in their former order (the sort is stable).
RECURSIVE InsertNewestFirst(_, _)
InsertNewestFirst(x, sorted) ==
    IF sorted = <<>> THEN <<x>>
    ELSE IF x.timestamp >= Head(sorted).timestamp THEN <<x>> \o sorted
    ELSE <<Head(sorted)>> \o InsertNewestFirst(x, Tail(sorted))

RECURSIVE SortNewestFirst(_)
SortNewestFirst(list) ==
    IF list = <<>> THEN <<>>
    ELSE InsertNewestFirst(Head(list), SortNewestFirst(Tail(list)))

\* Array.prototype.slice(start, end).
Slice(list, start, end) ==
    LET len == Len(list)
        from == IF start < 0 THEN (IF len + start < 0 THEN 0 ELSE len + start)
                ELSE IF start > len THEN len ELSE start
        to == IF end < 0 THEN (IF len + end < 0 THEN 0 ELSE len + end)
              ELSE IF end > len THEN len ELSE end
    IN SubSeq(list, from + 1, to)

\* The filters when a severity filter takes the place of the status filter.
matchesLastFilter(incident, category, status, severity, reportedBy, verified) ==
    /\ (category # "" /\ category # "all") => incident.category = category
    /\ (severity = "" \/ severity = "all")
        => ((status # "" /\ status # "all") => incident.status = status)
    /\ (severity # "" /\ severity # "all") => incident.severity = severity
    /\ reportedBy # <<>>
        => ToLowerCase(incident.reportedBy) = ToLowerCase(reportedBy)
    /\ verified # "null" => incident.verified = (verified = "true")

\* The filters of GET: a filter is applied when its parameter is given ("" and
\* <<>> stand for a parameter that is absent or empty, "null" for verified
\* absent), category, status and severity also not when it is 'all'.
matchesFilters(incident, category, status, severity, reportedBy, verified) ==
    /\ (category # "" /\ category # "all") => incident.category = category
    /\ (status # "" /\ status # "all") => incident.status = status
    /\ (severity # "" /\ severity # "all") => incident.severity = severity
    /\ reportedBy # <<>>
        => ToLowerCase(incident.reportedBy) = ToLowerCase(reportedBy)
    /\ verified # "null" => incident.verified = (verified = "true")

\* GET /api/incidents.  limit and offset are the parsed parameters (50 and 0
\* when absent); outcome gives, for every incident with an ipfsHash, what the
\* fetch of its payload does.
IncidentGET(category, status, severity, reportedBy, verified, limit, offset, includeIpfs, outcome) ==
    LET req == [category |-> category, status |-> status, severity |-> severity,
                reportedBy |-> reportedBy, verified |-> verified, limit |-> limit,
                offset |-> offset, includeIpfs |-> includeIpfs, outcome |-> outcome]
        enhancedIncidents ==
            IF includeIpfs
            THEN [i \in 1..Len(mockIncidents) |->
                    enhancedIncident(mockIncidents[i],
                        IF mockIncidents[i].id \in DOMAIN outcome
                        THEN outcome[mockIncidents[i].id] ELSE "fail")]
            ELSE mockIncidents
        filteredIncidents ==
            SortNewestFirst(
                SelectSeq(enhancedIncidents,
                    LAMBDA incident : matchesFilters(incident, category, status,
                                                     severity, reportedBy, verified)))
        paginatedIncidents == Slice(filteredIncidents, offset, offset + limit)
    IN
    /\ last' = Response("incidentGET", req, 200, "",
                [incidents |-> paginatedIncidents,
                 pagination |-> [total |-> Len(filteredIncidents), limit |-> limit,
                                 offset |-> offset,
                                 hasMore |-> offset + limit < Len(filteredIncidents)],
                 ipfsInfo |->
                    [enabled |-> includeIpfs,
                     totalWithIpfs |->
                        Len(SelectSeq(filteredIncidents, LAMBDA i : i.ipfsHash # "")),
                     successfullyEnhanced |->
                        Len(SelectSeq(filteredIncidents,
                              LAMBDA i : "dataSource" \in DOMAIN i
                                         /\ i.dataSource = "ipfs_enhanced"))]])
    /\ UNCHANGED <<now, voteVars, electionVars, candidateVars, registrationVars, incidentVars, requestVars, premiumVars, paymentVars>>

-----------------------------------------------------------------------------
(* analytics/premium/route.ts *)

\* 30 * 24 * 60 * 60 * 1000 ms, in half hours
premiumPeriod == 30 * 24 * 2

\* Math.ceil(ms / (1000 * 60 * 60 * 24)), for ms >= 0 in half hours
CeilDays(halfHours) == (halfHours + 47) \div 48

\* An expiry test that also refuses at the instant of expiry.
isExpiredAtExpiry(premiumAccess, t) == premiumAccess.expiresAt <= t

\* premiumAccess.expiresAt < Date.now()
isExpired(premiumAccess, t) == premiumAccess.expiresAt < t

\* GET /api/analytics/premium?address=
PremiumGET(address) ==
    LET req == [address |-> address]
        key == ToLowerCase(address)
    IN
    /\ IF Falsy(address)
       THEN last' = Response("premiumGET", req, 400,
                             "Address parameter is required", NoBody)
       ELSE IF key \notin DOMAIN premiumUsers \/ isExpired(premiumUsers[key], now)
       THEN last' = Response("premiumGET", req, 403, "Premium access required",
                             [premiumRequired |-> TRUE])
       ELSE last' = Response("premiumGET", req, 200, "",
                        [data |-> "analytics",
                         premiumAccess |->
                            [expiresAt |-> premiumUsers[key].expiresAt,
                             daysRemaining |->
                                CeilDays(premiumUsers[key].expiresAt - now)]])
    /\ UNCHANGED <<now, voteVars, electionVars, candidateVars, registrationVars, incidentVars, requestVars, premiumVars, paymentVars>>

\* POST /api/analytics/premium
PremiumPOST(address, transactionId) ==
    LET req == [address |-> address, transactionId |-> transactionId]
        expiresAt == now + premiumPeriod
    IN
    /\ IF Falsy(address) \/ transactionId = ""
       THEN /\ last' = Response("premiumPOST", req, 400,
                                "Address and transaction ID are required", NoBody)
            /\ UNCHANGED premiumUsers
       ELSE /\ premiumUsers' = MapSet(premiumUsers, ToLowerCase(address),
                                      [expiresAt |-> expiresAt,
                                       transactionId |-> transactionId])
            /\ last' = Response("premiumPOST", req, 200,
                                "Premium access granted for 30 days",
                                [expiresAt |-> expiresAt, daysRemaining |-> 30])
    /\ UNCHANGED <<now, voteVars, electionVars, candidateVars, registrationVars, incidentVars, requestVars, paymentVars>>

-----------------------------------------------------------------------------
(* components/BasePay.tsx, the component over useWriteContract *)

\* The number of payments the model lets the user start.
MaxPayments == 4

\* The component as mounted: the wallet not connected, no payment made.
\* write is the state of the mutation of useWriteContract, hash and error are
\* its data and error, value is the amount of the last write, receipt is the
\* state of useWaitForTransactionReceipt;
\* started counts the calls of handlePayment that passed the wallet check,
\* callbacks lists the calls of onSuccess and onError.
InitialPayment ==
    [isConnected |-> FALSE, isProcessing |-> FALSE, write |-> "idle", value |-> "",
     hash |-> "", error |-> FALSE, receipt |-> "idle", started |-> 0,
     callbacks |-> <<>>]

\* isLoading = isProcessing || isConfirming
isLoading(p) == p.isProcessing \/ p.receipt = "confirming"

\* disabled={disabled || isLoading || !isConnected}, the disabled prop false
ButtonDisabled(p) == isLoading(p) \/ ~p.isConnected

\* The body of the component, run at every render: the two tests of the hook
\* results see the isProcessing of this render; setIsProcessing(true) makes
\* the next render skip both.
Render(p) ==
    LET confirmed == p.receipt = "confirmed" /\ p.hash # "" /\ ~p.isProcessing
        failed == p.error /\ ~p.isProcessing
    IN [p EXCEPT !.isProcessing = @ \/ confirmed \/ failed,
                 !.callbacks = @ \o (IF confirmed THEN <<"onSuccess">> ELSE <<>>)
                                 \o (IF failed THEN <<"onError">> ELSE <<>>)]

\* parseEther(amount) throws on a string that is no decimal number.
parseEtherThrows(amount) == amount \notin {"0.01", "0.05"}

\* A change of the component's state or of a hook's result that leaves the
\* routes alone; the component renders again.
PaymentBecomes(p) ==
    /\ payment' = Render(p)
    /\ UNCHANGED <<now, last, voteVars, electionVars, candidateVars, registrationVars, incidentVars, requestVars, premiumVars>>

\* useAccount: the user connects or disconnects the wallet.
WalletConnection(isConnected) ==
    /\ payment.isConnected # isConnected
    /\ PaymentBecomes([payment EXCEPT !.isConnected = isConnected])

\* handlePayment, run by a click on the button, which is enabled: sets
\* isProcessing and calls writeContract, which starts the mutation and returns
\* (it reports a failure through error, not by throwing); when parseEther
\* throws, the catch clears isProcessing and calls onError.
handlePayment(amount) ==
    /\ ~ButtonDisabled(payment)
    /\ payment.started < MaxPayments
    /\ IF parseEtherThrows(amount)
       THEN PaymentBecomes([payment EXCEPT !.isProcessing = FALSE,
                                          !.started = @ + 1,
                                          !.callbacks = Append(@, "onError")])
       ELSE PaymentBecomes([payment EXCEPT !.isProcessing = TRUE,
                                          !.started = @ + 1,
                                          !.write = "pending", !.value = amount,
                                          !.hash = "", !.error = FALSE,
                                          !.receipt = "idle"])

\* The wallet signs and sends the transaction: useWriteContract gives its
\* hash and useWaitForTransactionReceipt starts to wait.
WriteSucceeds(hash) ==
    /\ payment.write = "pending"
    /\ PaymentBecomes([payment EXCEPT !.write = "idle", !.hash = hash,
                                     !.receipt = "confirming"])

\* The write fails (the user rejects it, the chain refuses it):
\* useWriteContract gives the error.
WriteFails ==
    /\ payment.write = "pending"
    /\ PaymentBecomes([payment EXCEPT !.write = "idle", !.error = TRUE])

\* The transaction is reverted: isConfirming ends, isConfirmed does not hold.
ReceiptFails ==
    /\ payment.receipt = "confirming"
    /\ PaymentBecomes([payment EXCEPT !.receipt = "failed"])

\* The transaction is confirmed: isConfirming ends, isConfirmed holds.
ReceiptConfirmed ==
    /\ payment.receipt = "confirming"
    /\ PaymentBecomes([payment EXCEPT !.receipt = "confirmed"])

-----------------------------------------------------------------------------
(* Create requests in flight *)

\* The number of create requests the model lets arrive, each on a connection of
\* its own, so that all of them can be in flight at one time.
MaxInFlight == 2

Connections == 1..MaxInFlight

\* A connection that carries no request.
Idle == [phase |-> "idle"]

\* A create handler starts and suspends at `const body = await request.json()`,
\* its only await; other requests are handled until the body has arrived.
Arrive(c, request) ==
    /\ requests[c].phase = "idle"
    /\ requests' = [requests EXCEPT ![c] = [phase |-> "awaiting body",
                                            request |-> request]]
    /\ UNCHANGED <<now, last, voteVars, electionVars, candidateVars, registrationVars, incidentVars, premiumVars, paymentVars>>

\* The part of the create handler of the request's route that runs once the
\* body has arrived.
CreateResumed(request) ==
    CASE request.route = "votes" ->
            \E rnd \in RandomSuffixes :
                VotePOSTResumed(request.body.electionId, request.body.candidateId,
                                request.body.voterAddress, rnd)
      [] request.route = "voter-registration" ->
            \E rnd \in RandomSuffixes : RegistrationPOSTResumed(request.body, rnd)
      [] request.route = "candidates" -> CandidatePOSTResumed(request.body)
      [] request.route = "admin/create-election" ->
            CreateElectionPOSTResumed(request.adminAddress, request.body)

\* The body of the request of connection c has arrived: its handler runs from
\* there to its return.  The connection keeps the status returned and which
\* other connections were suspended at that time.
Resume(c) ==
    /\ requests[c].phase = "awaiting body"
    /\ CreateResumed(requests[c].request)
    /\ requests' = [requests EXCEPT ![c] =
                        [phase |-> "returned",
                         request |-> requests[c].request,
                         status |-> last'.status,
                         suspended |-> {d \in Connections \ {c} :
                                          requests[d].phase = "awaiting body"}]]

-----------------------------------------------------------------------------
(* The initial state and the requests of each specification *)

Init ==
    /\ now = 0
    /\ last = Response("none", <<>>, 0, "", NoBody)
    /\ mockVotes = <<>>
    /\ mockElections_status = SeedElections
    /\ mockElections_create = SeedElections
    /\ mockElections_list = SeedElectionList
    /\ mockCandidates_main = SeedCandidates
    /\ mockCandidates_id = SeedCandidates
    /\ mockCandidates_verify = SeedCandidates
    /\ mockRegistrations = SeedRegistrations
    /\ mockIncidents = SeedIncidents
    /\ requests = [c \in Connections |-> Idle]
    /\ premiumUsers = <<>>
    /\ payment = InitialPayment

SpecVotes == Init /\ [][NextVotes]_vars

IdsOf(list) == {list[i].id : i \in 1..Len(list)}

AdminInputs == {Addr1, Addr3, Undefined}
StatusInputs == validStatuses \cup {"archived", ""}

\* Before, inside and after the polls of provincial-2024 and national-2024.
StatusInstants == {0, 1228, 2224, 2236, 2248, 2260}

\* Requests to admin/election-status.
NextElectionStatus ==
    \/ Tick(StatusInstants)
    \/ \E e \in IdsOf(mockElections_status) \cup {<<"no-such-election">>, <<>>},
          s \in StatusInputs, a \in AdminInputs : ElectionStatusPUT(e, s, a)

SpecElectionStatus == Init /\ [][NextElectionStatus]_vars

TitleAbc == <<"A", "b", "c">>

\* A valid body of POST create-election, and bodies with one field changed.
ElectionBody(title, startDate, endDate) ==
    [title |-> title, description |-> Description10, type |-> "municipal",
     startDate |-> startDate, endDate |-> endDate,
     positions |-> << <<"M">> >>, eligibleVoters |-> 1000]

AdminElectionBodies ==
    {ElectionBody(t, 2224, 2248) : t \in {TitleAbc, <<"A", "b", "c", "d">>, <<"N", "a", "t">>}}

AdminInstants == {0, 2224}

\* The admin requests: create-election, election-status and verify-candidate,
\* and the public election list.
NextAdmin ==
    \/ Tick(AdminInstants)
    \/ \E a \in AdminInputs, data \in AdminElectionBodies : CreateElectionPOST(a, data)
    \/ \E e \in IdsOf(mockElections_status) \cup IdsOf(mockElections_create)
                   \cup {<<"no-such-election">>},
          s \in {"active", "cancelled"}, a \in AdminInputs :
            ElectionStatusPUT(e, s, a)
    \/ ElectionsGET
    \/ \E t \in {TitleAbc, Undefined} : ElectionsPOST(t)
    \/ \E c \in {<<"1">>, <<"3">>}, a \in AdminInputs : VerifyCandidatePOST(c, a)

SpecAdmin == Init /\ [][NextAdmin]_vars

\* Start and end dates of create-election bodies: half an hour, one hour,
\* twelve hours, thirty days, thirty days and half an hour, no time, an end
\* before the start, and dates that do not parse.
ElectionDatePairs ==
    {<<2224, 2225>>, <<2224, 2226>>, <<2224, 2248>>, <<2224, 2224 + thirtyDays>>,
     <<2224, 2225 + thirtyDays>>, <<2224, 2224>>, <<2248, 2224>>,
     <<NaN, 2248>>, <<2224, NaN>>}

\* Titles of create-election bodies: a new title, the same in other letter
\* case, the same with a blank after it, the title of a seed election in other
\* letter case, and none.
ElectionTitles ==
    {TitleAbc, <<"a", "B", "C">>, <<"A", "b", "c", " ">>, <<"n", "A", "T">>, Undefined}

ElectionCreateBodies ==
    {ElectionBody(t, p[1], p[2]) : t \in {TitleAbc, <<"X", "y", "z">>},
                                   p \in ElectionDatePairs}
    \cup {ElectionBody(t, 2224, 2248) : t \in ElectionTitles}

ElectionCreateInstants == {0, 2225}

\* Creations of elections, by an admin and by another address.
NextElectionCreate ==
    \/ Tick(ElectionCreateInstants)
    \/ \E a \in {Addr1, Addr3}, data \in ElectionCreateBodies :
          CreateElectionPOST(a, data)

SpecElectionCreate == Init /\ [][NextElectionCreate]_vars

CandidateBody(name, walletAddress) ==
    [name |-> name, party |-> <<"p">>, position |-> <<"m">>, bio |-> <<"b">>,
     experience |-> <<"e">>, platform |-> <<"f">>,
     electionId |-> <<"m", "2", "4">>, walletAddress |-> walletAddress]

CandidateBodies ==
    {CandidateBody(<<"N">>, w) : w \in {<<"a">>, <<"A">>, Addr3, <<"g">>, Undefined}}
    \cup {CandidateBody(<<" ">>, <<"a">>)}

\* The ids asked for: seed candidates 1 and 3, the candidates POST created, none.
CandidateIdInputs ==
    {<<"1">>, <<"3">>} \cup (IdsOf(mockCandidates_main) \ IdsOf(SeedCandidates))
        \cup {<<"no-such-candidate">>}

CandidateWalletInputs == {Addr1, Addr3, <<"a">>, Undefined}

\* Patches of PUT candidates/[id]: a new name together with values for the
\* protected fields; a blank party; only a protected field.
CandidatePatches ==
    { [name |-> <<"Z">>, id |-> <<"9">>, walletAddress |-> <<"a">>, verified |-> TRUE,
       registrationDate |-> 0, electionId |-> <<"x">>],
      [party |-> <<" ">>],
      [verified |-> TRUE] }

CandidateInstants == {0, 16}

NextCandidates ==
    \/ Tick(CandidateInstants)
    \/ \E body \in CandidateBodies : CandidatePOST(body)
    \/ \E id \in CandidateIdInputs : CandidateGET(id)
    \/ \E id \in CandidateIdInputs, w \in CandidateWalletInputs,
          patch \in CandidatePatches : CandidatePUT(id, w, patch)
    \/ \E id \in CandidateIdInputs, w \in CandidateWalletInputs : CandidateDELETE(id, w)
    \/ \E id \in CandidateIdInputs, a \in {Addr1, Addr3, Undefined} :
          VerifyCandidatePOST(id, a)

SpecCandidates == Init /\ [][NextCandidates]_vars

CandidateCreateBodies ==
    {CandidateBody(<<"N">>, w) :
        w \in {<<"a">>, <<"A">>, <<"b">>, <<"B">>, Addr3, <<"g">>, Undefined}}

\* Registrations of candidates, and deletions by the wallets that registered.
NextCandidateCreate ==
    \/ Tick(CandidateInstants)
    \/ \E body \in CandidateCreateBodies : CandidatePOST(body)
    \/ \E id \in IdsOf(mockCandidates_main) \cup IdsOf(mockCandidates_id),
          w \in {Addr1, Addr2, Addr3, <<"a">>, <<"b">>} : CandidateDELETE(id, w)

SpecCandidateCreate == Init /\ [][NextCandidateCreate]_vars

JohnNationalId == <<"S", "S", "N", "1", "2">>
JohnEmail == <<"j", "@", "e", ".", "c">>
JaneNationalId == <<"S", "S", "N", "9", "8">>

RegistrationBody(walletAddress, nationalId, email, dateOfBirth, state, country) ==
    [walletAddress |-> walletAddress, firstName |-> <<"F">>, lastName |-> <<"L">>,
     dateOfBirth |-> dateOfBirth, nationalId |-> nationalId, email |-> email,
     phoneNumber |-> <<"+", "1", "-", "7">>, street |-> <<"s">>, city |-> <<"c">>,
     state |-> state, zipCode |-> <<"2">>, country |-> country]

RegistrationWallets == {Addr1, <<"a">>, Undefined}
RegistrationNationalIds ==
    {JohnNationalId, JohnNationalId \o <<" ">>, <<"S", "S", "N", "5", "5">>}
RegistrationEmails ==
    {JohnEmail, <<"J", "@", "e", ".", "c">>, <<"n", "@", "e", ".", "c">>}

RegistrationBodies ==
    {RegistrationBody(w, n, e, DateOfBirth(1990, 1, 1), <<"N", "Y">>, <<"U", "S">>) :
        w \in RegistrationWallets, n \in RegistrationNationalIds,
        e \in RegistrationEmails}
    \cup {RegistrationBody(<<"a">>, <<"S", "S", "N", "5", "5">>, <<"n", "@", "e", ".", "c">>,
                           d, s, c) :
            d \in {DateOfBirth(2006, 10, 1), InvalidDate, NoDate},
            s \in {<<"W", "A">>}, c \in {<<"U", "S">>, <<"C", "A">>}}
    \cup {RegistrationBody(Addr1, JaneNationalId, <<"n", "@", "e", ".", "c">>,
                           DateOfBirth(1990, 1, 1), <<"N", "Y">>, <<"U", "S">>)}

\* The ids asked for: every registration but the seed voter-002, and none.
RegistrationIdInputs ==
    (IdsOf(mockRegistrations) \ {<<"voter-002">>}) \cup {<<"no-such-voter">>, <<>>}

NextRegistrations ==
    \/ \E body \in RegistrationBodies, r \in RandomSuffixes : RegistrationPOST(body, r)
    \/ \E id \in RegistrationIdInputs, s \in {"verified", "rejected", "archived"},
          a \in {Addr1, Undefined} : RegistrationPUT(id, s, "", a)
    \/ \E id \in RegistrationIdInputs, w \in {Addr1, <<"a">>, Undefined} :
          RegistrationDELETE(id, w)

SpecRegistrations == Init /\ [][NextRegistrations]_vars

\* Bodies of one new voter at four addresses: a listed and an unlisted state,
\* in the supported country and in another.
RegistrationAddressBodies ==
    {RegistrationBody(<<"a">>, <<"S", "S", "N", "5", "5">>, <<"n", "@", "e", ".", "c">>,
                      DateOfBirth(1990, 1, 1), s, c) :
        s \in {<<"T", "X">>, <<"W", "A">>}, c \in {<<"U", "S">>, <<"C", "A">>}}

\* Registrations, status changes by an admin, by another address and without
\* an address, and deletions.
NextRegistrationStatus ==
    \/ \E body \in RegistrationAddressBodies, r \in RandomSuffixes :
          RegistrationPOST(body, r)
    \/ \E id \in RegistrationIdInputs,
          s \in {"verified", "rejected", "pending", "archived"},
          a \in {Addr1, Addr3, Undefined} : RegistrationPUT(id, s, "", a)
    \/ \E id \in (IdsOf(mockRegistrations) \ IdsOf(SeedRegistrations))
                    \cup {<<"no-such-voter">>} :
          RegistrationDELETE(id, Undefined)

SpecRegistrationStatus == Init /\ [][NextRegistrationStatus]_vars

\* Every request of every route.
\* A body of POST incidents with a valid title, location and reporter.
IncidentBody(description, category, severity) ==
    [title |-> <<"T", "i", "t", "l", "e">>, description |-> description,
     location |-> <<"P", "l", "a", "c", "e">>, category |-> category,
     reportedBy |-> <<"A">>, severity |-> severity]

WeaponDescription == <<"A", " ", "W", "E", "A", "P", "O", "N", " ", "!">>
FraudDescription == <<"f", "r", "a", "u", "d", " ", "h", "e", "r", "e">>
DelayDescription == <<"l", "o", "n", "g", " ", "d", "e", "l", "a", "y">>
CalmDescription == <<"a", "l", "l", " ", "i", "s", " ", "o", "k", ".">>
ShortDescription == <<"t", "h", "r", "e", "a", "t">>
FraudDelayDescription == <<"F", "r", "a", "u", "d", " ", "d", "e", "l", "a", "y">>

\* Bodies of POST incidents: every description with category other and with
\* no severity, a valid and an invalid one; a description without keyword and
\* one with a medium keyword with every category; one with a high keyword
\* and one with a high and a medium keyword with three categories.
IncidentCreateBodies ==
    {IncidentBody(d, "other", s) :
        d \in {WeaponDescription, FraudDescription, DelayDescription,
                CalmDescription, ShortDescription},
        s \in {"", "low", "urgent"}}
    \cup {IncidentBody(d, c, "") :
            d \in {CalmDescription, DelayDescription},
            c \in {"violence", "voter_intimidation", "technical_issues",
                    "irregularities", "bogus"}}
    \cup {IncidentBody(d, c, "") :
            d \in {FraudDescription, FraudDelayDescription},
            c \in {"violence", "technical_issues", "other"}}

\* Creations of incidents: without files, and with two files of which the
\* pinning service stores none, either one or both.
NextIncidentCreate ==
    \/ \E body \in IncidentCreateBodies, r \in RandomSuffixes :
          IncidentPOST(body, 0, {}, TRUE, r)
    \/ \E uploaded \in SUBSET (1..2), pinned \in BOOLEAN, r \in RandomSuffixes :
          IncidentPOST(IncidentBody(WeaponDescription, "other", ""),
                       2, uploaded, pinned, r)
    \/ \E r \in RandomSuffixes :
          IncidentPOST(IncidentBody(CalmDescription, "other", ""), 0, {}, FALSE, r)

SpecIncidentCreate == Init /\ [][NextIncidentCreate]_vars

\* The ids asked for: two seed incidents, the incidents POST created, none.
IncidentIdInputs ==
    {<<"incident-001">>, <<"incident-003">>}
        \cup (IdsOf(mockIncidents) \ IdsOf(SeedIncidents))
        \cup {<<"no-such-incident">>, <<>>}

\* Bodies of PUT incidents: <<status, verified, verificationNotes, assignedTo>>.
IncidentPatches ==
    {<<"resolved", "undefined", "", "">>, <<"archived", "undefined", "", "">>,
     <<"", "true", "checked", "admin-009">>, <<"", "undefined", "", "">>}

\* Creations, updates and deletions of incidents.
NextIncidents ==
    \/ \E s \in {"", "urgent"}, r \in RandomSuffixes :
          IncidentPOST(IncidentBody(CalmDescription, "other", s), 0, {}, TRUE, r)
    \/ \E id \in IncidentIdInputs, patch \in IncidentPatches :
          IncidentPUT(id, patch[1], patch[2], patch[3], patch[4])
    \/ \E id \in IncidentIdInputs : IncidentDELETE(id)

SpecIncidents == Init /\ [][NextIncidents]_vars

\* The outcomes of the fetches of one GET: one for every incident of the store
\* that has an ipfsHash.
FetchOutcomeMaps == [HashedIds(mockIncidents) -> FetchOutcomes]

\* The outcomes with every fetch returning the pinned payload.
AllFetched == [id \in HashedIds(mockIncidents) |-> "ok"]

\* limit and offset of GET: <<50, 0>> is the request without either.
IncidentWindows == {<<50, 0>>, <<2, 0>>, <<2, 1>>}

\* Lists of incidents, before and after a create: with enrichment and every
\* combination of fetch outcomes; without enrichment and with combinations of
\* filters and windows; by reporter.
NextIncidentList ==
    \/ Tick({2232})
    \/ \E pinned \in BOOLEAN, r \in RandomSuffixes :
          IncidentPOST(IncidentBody(WeaponDescription, "other", ""), 0, {}, pinned, r)
    \/ \E severity \in {"", "critical"}, outcome \in FetchOutcomeMaps :
          IncidentGET("", "", severity, <<>>, "null", 50, 0, TRUE, outcome)
    \/ \E category \in {"", "irregularities"}, status \in {"", "pending"},
          severity \in {"", "critical", "high"}, verified \in {"null", "true", "false"},
          window \in IncidentWindows :
          IncidentGET(category, status, severity, <<>>, verified,
                      window[1], window[2], FALSE, AllFetched)
    \/ \E reportedBy \in {<<"A">>, Addr3}, includeIpfs \in BOOLEAN :
          IncidentGET("all", "all", "all", reportedBy, "null", 50, 0,
                      includeIpfs, AllFetched)

SpecIncidentList == Init /\ [][NextIncidentList]_vars

\* A create request of a route.
CreateRequest(route, adminAddress, body) ==
    [route |-> route, adminAddress |-> adminAddress, body |-> body]

\* The create requests in flight: for every route two with the same key (the
\* address or the title in another letter case), for votes one with another.
ConcurrentCreateRequests ==
    {CreateRequest("votes", Undefined,
                   [electionId |-> "election-2024-national",
                    candidateId |-> "candidate-anc-ramaphosa", voterAddress |-> a]) :
        a \in {<<"a">>, <<"A">>, <<"b">>}}
    \cup {CreateRequest("voter-registration", Undefined,
                 RegistrationBody(w, <<"S", "S", "N", "5", "5">>, <<"n", "@", "e", ".", "c">>,
                                  DateOfBirth(1990, 1, 1), <<"N", "Y">>, <<"U", "S">>)) :
            w \in {<<"a">>, <<"A">>}}
    \cup {CreateRequest("candidates", Undefined, CandidateBody(<<"N">>, w)) :
            w \in {<<"a">>, <<"A">>}}
    \cup {CreateRequest("admin/create-election", Addr1, ElectionBody(t, 2224, 2248)) :
            t \in {TitleAbc, <<"a", "B", "C">>}}

\* Create requests on the connections: each arrives, waits for its body while
\* the other connections go on, and resumes.
NextConcurrentCreates ==
    \/ \E c \in Connections, request \in ConcurrentCreateRequests : Arrive(c, request)
    \/ \E c \in Connections : Resume(c)

SpecConcurrentCreates == Init /\ [][NextConcurrentCreates]_vars

\* The instants of the premium requests: a purchase at 0 expires at 1440, one
\* at 100 at 1540.
PremiumInstants == {0, 100, 1440, 1441, 1540, 1541}

PremiumAddresses == {<<"a">>, <<"A">>, <<"b">>, Undefined}

\* Purchases of premium access and premium checks, as time passes.
NextPremium ==
    \/ Tick(PremiumInstants)
    \/ \E a \in PremiumAddresses, t \in {"0xtx1", "0xtx2", ""} : PremiumPOST(a, t)
    \/ \E a \in PremiumAddresses : PremiumGET(a)

SpecPremium == Init /\ [][NextPremium]_vars

\* The user connects and disconnects the wallet and pays; the wallet and the
\* chain answer every write and confirm or revert every transaction sent.
NextBasePay ==
    \/ \E isConnected \in BOOLEAN : WalletConnection(isConnected)
    \/ \E amount \in {"0.01", "0.05", "abc"} : handlePayment(amount)
    \/ \E hash \in {"0xh1", "0xh2"} : WriteSucceeds(hash)
    \/ WriteFails
    \/ ReceiptConfirmed
    \/ ReceiptFails

SpecBasePay ==
    /\ Init
    /\ [][NextBasePay]_vars
    /\ WF_vars(WriteFails \/ \E hash \in {"0xh1", "0xh2"} : WriteSucceeds(hash))
    /\ WF_vars(ReceiptConfirmed \/ ReceiptFails)

Next ==
    \/ NextVotes
    \/ NextElectionStatus
    \/ NextAdmin
    \/ NextCandidates
    \/ NextCandidateCreate
    \/ NextRegistrations
    \/ NextRegistrationStatus
    \/ NextElectionCreate
    \/ NextIncidentCreate
    \/ NextIncidents
    \/ NextIncidentList
    \/ NextConcurrentCreates
    \/ NextPremium
    \/ NextBasePay

Spec == Init /\ [][Next]_vars

-----------------------------------------------------------------------------
(* Properties *)

\* The step handled a request of route op (the clock stands still while a
\* handler runs; a step that moves the clock handles none).
Handled(op) == now' = now /\ last'.op = op

Success(r) == r.status \in {200, 201}

\* Every vote of the store, with the key and the position it is stored at.
StoredVotes ==
    UNION {{<<k, i>> : i \in 1..Len(mockVotes[k])} : k \in DOMAIN mockVotes}

VoteAt(p) == mockVotes[p[1]][p[2]]

\* The store holds a vote of this address (in lower case) for this election.
AlreadyVoted(voterAddress, electionId) ==
    \E p \in StoredVotes :
        /\ VoteAt(p).voterAddress = ToLowerCase(voterAddress)
        /\ VoteAt(p).electionId = electionId

C1_OneVotePerPair ==
    \A p, q \in StoredVotes :
        (VoteAt(p).voterAddress = VoteAt(q).voterAddress
            /\ VoteAt(p).electionId = VoteAt(q).electionId) => p = q

C1_SecondCastRejected ==
    (Handled("votePOST")
        /\ ~Falsy(last'.req.voterAddress)
        /\ last'.req.candidateId # ""
        /\ AlreadyVoted(last'.req.voterAddress, last'.req.electionId))
    => /\ last'.status = 400
       /\ last'.message = "You have already voted in this election"
       /\ mockVotes' = mockVotes

\* C1: the vote store holds at most one vote per (voterAddress, electionId), and
\* a cast by an address that already has a vote for that election is answered
\* 400 'already voted' and leaves the store as it was.
C1_AtMostOneVote == [](C1_OneVotePerPair) /\ [][C1_SecondCastRejected]_vars

\* A second cast by the same address in other letter case has been refused while
\* the store holds that address's vote for the election.
C1_Witness ==
    /\ last.op = "votePOST"
    /\ last.status = 400
    /\ last.message = "You have already voted in this election"
    /\ last.req.voterAddress = <<"A">>
    /\ AlreadyVoted(<<"a">>, last.req.electionId)
    /\ Cardinality(StoredVotes) >= 2

StatusIndexes == 1..Len(mockElections_status)

\* The table of the claim: the changes of status that are allowed.
AllowedStatusChanges ==
    {<<"draft", "active">>, <<"draft", "cancelled">>, <<"active", "completed">>,
     <<"active", "cancelled">>, <<"cancelled", "draft">>}

C2_ChangesAlongTable ==
    /\ Len(mockElections_status') = Len(mockElections_status)
    /\ \A i \in StatusIndexes :
          /\ mockElections_status'[i].id = mockElections_status[i].id
          /\ mockElections_status'[i].status # mockElections_status[i].status
                => <<mockElections_status[i].status, mockElections_status'[i].status>>
                       \in AllowedStatusChanges
          /\ mockElections_status[i].status = "completed"
                => mockElections_status'[i].status = "completed"

\* A request for a change outside the table, for an election of the store, is
\* refused; the answer is 400 when the requester is an admin.
C2_OtherChangesRejected ==
    \A i \in StatusIndexes :
        (Handled("electionStatusPUT")
            /\ last'.req.electionId = mockElections_status[i].id
            /\ last'.req.status # ""
            /\ <<mockElections_status[i].status, last'.req.status>>
                  \notin AllowedStatusChanges)
        => /\ ~Success(last')
           /\ mockElections_status' = mockElections_status
           /\ (~Falsy(last'.req.adminAddress)
                  /\ ToLowerCase(last'.req.adminAddress) \in {Addr1, Addr2})
                 => last'.status = 400

\* C2: the status of an election changes only along draft->active,
\* draft->cancelled, active->completed, active->cancelled, cancelled->draft; any
\* other requested change (the current status included) is refused with 400 and
\* changes nothing; a completed election never changes status again.
C2_StatusTransitions == [][C2_ChangesAlongTable /\ C2_OtherChangesRejected]_vars

\* An election that was active has been completed, and an admin's request to
\* activate it again was refused with 400.
C2_Witness ==
    /\ mockElections_status[2].status = "completed"
    /\ last.op = "electionStatusPUT"
    /\ last.req.electionId = <<"provincial-2024">>
    /\ last.req.status = "active"
    /\ last.req.adminAddress = Addr1
    /\ last.status = 400
    /\ last.message = "Invalid status transition"

\* C3: a request for status 'active' succeeds only when startDate <= now <=
\* endDate of the election; before startDate or after endDate it is refused
\* (400 for an admin) and the election's status stays as it was.
C3_ActivationInsidePolls ==
    [][\A i \in StatusIndexes :
          (Handled("electionStatusPUT")
              /\ last'.req.electionId = mockElections_status[i].id
              /\ last'.req.status = "active")
          => /\ Success(last')
                  => /\ mockElections_status[i].startDate <= now
                     /\ now <= mockElections_status[i].endDate
                     /\ mockElections_status'[i].status = "active"
             /\ (now < mockElections_status[i].startDate
                     \/ now > mockElections_status[i].endDate)
                  => /\ ~Success(last')
                     /\ mockElections_status' = mockElections_status
                     /\ (~Falsy(last'.req.adminAddress)
                            /\ ToLowerCase(last'.req.adminAddress) \in {Addr1, Addr2})
                           => last'.status = 400]_vars

\* A draft election whose polls have closed was refused activation.
C3_Witness ==
    /\ last.op = "electionStatusPUT"
    /\ last.req.status = "active"
    /\ last.status = 400
    /\ last.message = "Cannot activate election after end date"
    /\ \E i \in StatusIndexes :
          /\ mockElections_status[i].id = last.req.electionId
          /\ mockElections_status[i].status = "draft"
          /\ now > mockElections_status[i].endDate

\* No two records of a candidate list have the same wallet address.
UniqueWallets(candidates) ==
    \A i, j \in 1..Len(candidates) :
        ToLowerCase(candidates[i].walletAddress) = ToLowerCase(candidates[j].walletAddress)
            => i = j

\* A record of the list has this wallet address, compared in lower case.
HasWallet(candidates, walletAddress) ==
    \E i \in 1..Len(candidates) :
        ToLowerCase(candidates[i].walletAddress) = ToLowerCase(walletAddress)

C4_UniqueWallets ==
    UniqueWallets(mockCandidates_main) /\ UniqueWallets(mockCandidates_id)

C4_DuplicateCreateRejected ==
    (Handled("candidatePOST")
        /\ ~Falsy(last'.req.walletAddress)
        /\ HasWallet(mockCandidates_main, last'.req.walletAddress))
    => /\ last'.status = 400
       /\ mockCandidates_main' = mockCandidates_main

\* C4: after any creates and deletes no two candidate records of a store have
\* the same wallet address, compared without regard to case; a create whose
\* wallet already has a candidacy is answered 400 and changes nothing.
C4_OneCandidacyPerWallet ==
    [](C4_UniqueWallets) /\ [][C4_DuplicateCreateRejected]_vars

\* Two candidates were registered, one was deleted, and a create for a
\* registered wallet written in capitals has been refused.
C4_Witness ==
    /\ Len(mockCandidates_main) = Len(SeedCandidates) + 2
    /\ Len(mockCandidates_id) < Len(SeedCandidates)
    /\ last.op = "candidatePOST"
    /\ last.req.walletAddress = <<"A">>
    /\ HasWallet(mockCandidates_main, <<"a">>)
    /\ last.status = 400
    /\ last.message = "This wallet address is already registered as a candidate"

RegistrationIndexes == 1..Len(mockRegistrations)

C5_UniqueRegistrations ==
    \A i, j \in RegistrationIndexes :
        (\/ ToLowerCase(mockRegistrations[i].walletAddress)
               = ToLowerCase(mockRegistrations[j].walletAddress)
         \/ mockRegistrations[i].nationalId = mockRegistrations[j].nationalId
         \/ ToLowerCase(mockRegistrations[i].email) = ToLowerCase(mockRegistrations[j].email))
        => i = j

C5_RegisteredWalletRejected ==
    (Handled("registrationPOST")
        /\ ~Falsy(last'.req.walletAddress)
        /\ ~Falsy(last'.req.email)
        /\ HasWallet(mockRegistrations, last'.req.walletAddress))
    => /\ last'.status = 400
       /\ \E k \in 1..Len(last'.body) :
             last'.body[k] = "Wallet address already registered"
       /\ mockRegistrations' = mockRegistrations

\* C5: after any creates, status changes and deletes no two registrations share
\* a wallet address, a national ID or an email; a registration with a
\* registered wallet is refused with 'Wallet address already registered' and
\* nothing is stored.
C5_OneRegistrationPerKey ==
    [](C5_UniqueRegistrations) /\ [][C5_RegisteredWalletRejected]_vars

\* The address is missing or is none of the admin allow-list.
NotAdmin(address) ==
    Falsy(address) \/ ToLowerCase(address) \notin {Addr1, Addr2}

AdminOps == {"createElectionPOST", "electionStatusPUT", "verifyCandidatePOST"}

\* C6: a create-election, election-status or verify-candidate request whose
\* adminAddress is not in the admin allow-list does not succeed and leaves the
\* election lists, every status and every verified flag as they were.
C6_AdminOnly ==
    [][(now' = now /\ last'.op \in AdminOps /\ NotAdmin(last'.req.adminAddress))
       => /\ ~Success(last')
          /\ UNCHANGED <<electionVars, candidateVars>>]_vars

\* An address outside the allow-list asked to create an election that an admin
\* could have created at that moment, and was refused.
C6_Witness ==
    /\ last.op = "createElectionPOST"
    /\ last.req.adminAddress = Addr3
    /\ last.req.title = TitleAbc
    /\ last.status = 403
    /\ ~TitleExists(mockElections_create, TitleAbc)
    /\ Len(mockElections_create) > Len(SeedElections)
    /\ mockCandidates_verify[3].verified
    /\ now <= 2224

\* The ids of the candidates that POST candidates has created.
CreatedCandidateIds == IdsOf(mockCandidates_main) \ IdsOf(SeedCandidates)

\* C7: create, update, delete and verify act on one candidate collection: a
\* candidate that create returned can be fetched, updated, deleted and verified
\* by the id create returned (the request does not end with 'not found').
C7_OneCandidateCollection ==
    (last.op \in {"candidateGET", "candidatePUT", "candidateDELETE", "verifyCandidatePOST"}
        /\ last.req.id \in CreatedCandidateIds)
    => last.status # 404

\* The ids of the elections that POST create-election has created.
CreatedElectionIds == IdsOf(mockElections_create) \ IdsOf(SeedElections)

\* C8: create, setStatus and list act on one election collection: an election
\* that create returned can have its status changed by the id create returned
\* (the request does not end with 'not found') and appears in the list.
C8_OneElectionCollection ==
    /\ (last.op = "electionStatusPUT" /\ last.req.electionId \in CreatedElectionIds)
          => last.status # 404
    /\ last.op = "electionsGET" => CreatedElectionIds \subseteq IdsOf(last.body)

VerifyIndexes == 1..Len(mockCandidates_verify)

\* Every record of the list that is verified is still verified afterwards, if
\* the list still holds a record of that id.
StaysVerified(before, after) ==
    \A i \in 1..Len(before), j \in 1..Len(after) :
        (before[i].verified /\ after[j].id = before[i].id) => after[j].verified

C9_VerifyOnce ==
    \A i \in VerifyIndexes :
        (Handled("verifyCandidatePOST")
            /\ last'.req.id = mockCandidates_verify[i].id
            /\ ~NotAdmin(last'.req.adminAddress))
        => IF mockCandidates_verify[i].verified
           THEN /\ last'.status = 400
                /\ last'.message = "Candidate is already verified"
                /\ UNCHANGED candidateVars
           ELSE /\ Success(last')
                /\ mockCandidates_verify'[i].verified

\* C9: an admin's verify of an unverified candidate sets verified; every later
\* verify of that id is answered 400 'Candidate is already verified' and changes
\* nothing; no request sets a verified flag back to false.
C9_VerifiedForGood ==
    [][/\ C9_VerifyOnce
       /\ StaysVerified(mockCandidates_verify, mockCandidates_verify')
       /\ StaysVerified(mockCandidates_id, mockCandidates_id')
       /\ StaysVerified(mockCandidates_main, mockCandidates_main')]_vars

\* Candidate 3, unverified at the start, is verified and a second verify of it
\* by an admin has been refused.
C9_Witness ==
    /\ last.op = "verifyCandidatePOST"
    /\ last.req.id = <<"3">>
    /\ last.req.adminAddress = Addr1
    /\ last.status = 400
    /\ last.message = "Candidate is already verified"
    /\ mockCandidates_verify[3].verified

\* C10: an update or delete of a candidate succeeds only when the requester's
\* walletAddress equals the candidate's, compared without regard to case; with
\* a missing or different wallet it is answered 403 and changes nothing.
C10_OwnerOnly ==
    [][\A i \in 1..Len(mockCandidates_id) :
          (now' = now /\ last'.op \in {"candidatePUT", "candidateDELETE"}
              /\ last'.req.id = mockCandidates_id[i].id)
          => /\ Success(last')
                  => /\ ~Falsy(last'.req.walletAddress)
                     /\ ToLowerCase(last'.req.walletAddress)
                            = ToLowerCase(mockCandidates_id[i].walletAddress)
             /\ (Falsy(last'.req.walletAddress)
                    \/ ToLowerCase(last'.req.walletAddress)
                           # ToLowerCase(mockCandidates_id[i].walletAddress))
                  => /\ last'.status = 403
                     /\ mockCandidates_id' = mockCandidates_id]_vars

\* The owner of candidate 1 has updated it, and a delete of it sent without a
\* wallet address has been refused with 403.
C10_Witness ==
    /\ last.op = "candidateDELETE"
    /\ last.req.id = <<"1">>
    /\ last.req.walletAddress = Undefined
    /\ last.status = 403
    /\ \E i \in 1..Len(mockCandidates_id) :
          /\ mockCandidates_id[i].id = <<"1">>
          /\ mockCandidates_id[i].name = <<"Z">>

\* C11: a successful candidate update leaves the candidate's id, walletAddress,
\* verified, registrationDate and electionId as they were, whatever the patch
\* holds for them, and leaves every other candidate record unchanged.
C11_UpdateKeepsProtectedFields ==
    [][(Handled("candidatePUT") /\ Success(last'))
       => /\ Len(mockCandidates_id') = Len(mockCandidates_id)
          /\ \A i \in 1..Len(mockCandidates_id) :
                IF mockCandidates_id[i].id = last'.req.id
                THEN \A f \in {"id", "walletAddress", "verified",
                               "registrationDate", "electionId"} :
                        mockCandidates_id'[i][f] = mockCandidates_id[i][f]
                ELSE mockCandidates_id'[i] = mockCandidates_id[i]
          /\ UNCHANGED <<mockCandidates_main, mockCandidates_verify>>]_vars

\* Candidate 3 took the new name from a patch that also carried another id,
\* wallet, verified flag, registration date and election.
C11_Witness ==
    /\ last.op = "candidatePUT"
    /\ last.status = 200
    /\ last.req.id = <<"3">>
    /\ \E i \in 1..Len(mockCandidates_id) :
          /\ mockCandidates_id[i].id = <<"3">>
          /\ mockCandidates_id[i].name = <<"Z">>
          /\ mockCandidates_id[i].walletAddress = Addr3
          /\ ~mockCandidates_id[i].verified
          /\ mockCandidates_id[i].electionId = <<"p", "2", "4">>

\* The election ids a vote may be cast for.
ActiveAllowList == {"election-2024-national", "election-2024-provincial-wc"}

C12_VotesOnlyForActive ==
    \A p \in StoredVotes : VoteAt(p).electionId \in ActiveAllowList

C12_InactiveCastRejected ==
    (Handled("votePOST") /\ last'.req.electionId \notin ActiveAllowList)
    => /\ last'.status = 400
       /\ mockVotes' = mockVotes
       /\ (last'.req.electionId # "" /\ last'.req.candidateId # ""
              /\ ~Falsy(last'.req.voterAddress))
          => last'.message = "Election is not currently active"

\* C12: a cast whose electionId is not in the active allow-list is answered 400
\* 'Election is not currently active' and records nothing; every vote of the
\* store belongs to an election of the allow-list.
C12_OnlyActiveElections ==
    [](C12_VotesOnlyForActive) /\ [][C12_InactiveCastRejected]_vars

\* A voter whose vote for an active election is stored has cast a complete
\* vote for the municipal election, which is not in the allow-list; refused.
C12_Witness ==
    /\ last.op = "votePOST"
    /\ last.req.electionId = "election-2024-municipal-ct"
    /\ last.req.candidateId # ""
    /\ last.req.voterAddress = <<"b">>
    /\ last.status = 400
    /\ last.message = "Election is not currently active"
    /\ AlreadyVoted(<<"b">>, "election-2024-national")
    /\ ~AlreadyVoted(<<"b">>, "election-2024-municipal-ct")

\* The message is one of the errors the response lists.
ListsError(r, message) ==
    r.status = 400 /\ \E k \in 1..Len(r.body) : r.body[k] = message

\* C13: in voter-registration create the three duplicate checks are
\* independent: for each of wallet, national ID and email the error list holds
\* that field's 'already registered' message whenever some registration of the
\* store, not necessarily the same for all three, already has that value.
C13_IndependentDuplicateChecks ==
    [][(Handled("registrationPOST")
          /\ last'.req.walletAddress # Undefined /\ last'.req.email # Undefined)
       => /\ (\E i \in RegistrationIndexes :
                 ToLowerCase(mockRegistrations[i].walletAddress)
                     = ToLowerCase(last'.req.walletAddress))
             => ListsError(last', "Wallet address already registered")
          /\ (\E i \in RegistrationIndexes :
                 mockRegistrations[i].nationalId = last'.req.nationalId)
             => ListsError(last', "National ID already registered")
          /\ (\E i \in RegistrationIndexes :
                 ToLowerCase(mockRegistrations[i].email) = ToLowerCase(last'.req.email))
             => ListsError(last', "Email address already registered")]_vars

\* The registrations that POST voter-registration has stored.
CreatedRegistrations ==
    {i \in RegistrationIndexes : mockRegistrations[i].id \notin IdsOf(SeedRegistrations)}

\* The date of birth is a date, and the age it gives on that day is 18 or more.
IsAdultOn(dateOfBirth, t) ==
    dateOfBirth.kind = "date" /\ Age(dateOfBirth, Today(t)) >= 18

C14_StoredAreAdults ==
    \A i \in CreatedRegistrations :
        IsAdultOn(mockRegistrations[i].dateOfBirth, mockRegistrations[i].registrationDate)

C14_OthersRejected ==
    (Handled("registrationPOST")
        /\ last'.status # 500
        /\ last'.req.dateOfBirth.kind # "missing"
        /\ ~IsAdultOn(last'.req.dateOfBirth, now))
    => /\ ListsError(last', "Must be at least 18 years old to register")
       /\ mockRegistrations' = mockRegistrations

\* C14: for every voter-registration submission, either the age computed from
\* dateOfBirth on the current date is at least 18, or the submission is refused
\* with 'Must be at least 18 years old to register' and nothing is stored.
C14_AgeAtLeast18 == [](C14_StoredAreAdults) /\ [][C14_OthersRejected]_vars

CreateIndexes == 1..Len(mockElections_create)

C15_DatesInOrder ==
    \A i \in CreateIndexes :
        LET e == mockElections_create[i] IN
        /\ e.startDate # NaN /\ e.endDate # NaN
        /\ e.endDate > e.startDate
        /\ e.endDate - e.startDate >= 2
        /\ e.endDate - e.startDate <= 30 * 48

C15_EndNotAfterStartRejected ==
    (Handled("createElectionPOST")
        /\ ~NotAdmin(last'.req.adminAddress)
        /\ last'.req.title # Undefined
        /\ last'.req.startDate # NaN /\ last'.req.endDate # NaN
        /\ last'.req.endDate <= last'.req.startDate)
    => /\ ListsError(last', "End date must be after start date")
       /\ mockElections_create' = mockElections_create

\* C15: every election of the store ends after it starts and lasts between one
\* hour and thirty days, both included, after any creates; a create whose
\* endDate is not after its startDate is answered 400 with 'End date must be
\* after start date' and stores nothing.
C15_ElectionDuration ==
    [](C15_DatesInOrder) /\ [][C15_EndNotAfterStartRejected]_vars

\* The store holds a created election of exactly one hour and one of exactly
\* thirty days, and a create that ends when it starts has been refused.
C15_Witness ==
    /\ \E i, j \in CreateIndexes :
          /\ mockElections_create[i].endDate - mockElections_create[i].startDate = 2
          /\ mockElections_create[j].endDate - mockElections_create[j].startDate = 30 * 48
    /\ last.op = "createElectionPOST"
    /\ last.req.startDate = 2224 /\ last.req.endDate = 2224
    /\ ListsError(last, "End date must be after start date")

C16_UniqueTitles ==
    \A i, j \in CreateIndexes :
        ToLowerCase(mockElections_create[i].title)
            = ToLowerCase(mockElections_create[j].title) => i = j

C16_SameTitleRejected ==
    (Handled("createElectionPOST")
        /\ ~NotAdmin(last'.req.adminAddress)
        /\ last'.req.title # Undefined
        /\ \E i \in CreateIndexes :
              ToLowerCase(mockElections_create[i].title) = ToLowerCase(last'.req.title))
    => /\ ListsError(last', "An election with this title already exists")
       /\ mockElections_create' = mockElections_create

\* C16: after any creates no two elections of the store have the same title,
\* compared without regard to case; a create whose title is that of an election
\* of the store is refused with 'An election with this title already exists'
\* and stores nothing.
C16_OneElectionPerTitle ==
    [](C16_UniqueTitles) /\ [][C16_SameTitleRejected]_vars

\* The description names one of violence, threat, weapon, assault, emergency,
\* in any letter case.
HasCriticalKeyword(description) ==
    \E keyword \in {<<"v", "i", "o", "l", "e", "n", "c", "e">>,
                    <<"t", "h", "r", "e", "a", "t">>, <<"w", "e", "a", "p", "o", "n">>,
                    <<"a", "s", "s", "a", "u", "l", "t">>,
                    <<"e", "m", "e", "r", "g", "e", "n", "c", "y">>} :
        Includes(ToLowerCase(description), keyword)

\* The last request created an incident, which is the last of the store.
IncidentCreated ==
    /\ last.op = "incidentPOST"
    /\ last.status = 201
    /\ Len(mockIncidents) > 0
    /\ mockIncidents[Len(mockIncidents)] = last.body.incident

\* C17 as stated: every incident creation whose description contains a
\* critical keyword stores severity critical.
C17_KeywordAlwaysCritical ==
    (IncidentCreated /\ HasCriticalKeyword(last.req.description))
    => mockIncidents[Len(mockIncidents)].severity = "critical"

\* C17, amended: an incident creation without a severity whose description
\* contains a critical keyword stores severity critical; a creation that
\* supplies a severity stores the supplied one.
C17_KeywordCriticalUnlessSupplied ==
    IncidentCreated
    => /\ (last.req.severity = "" /\ HasCriticalKeyword(last.req.description))
              => mockIncidents[Len(mockIncidents)].severity = "critical"
       /\ last.req.severity # ""
              => mockIncidents[Len(mockIncidents)].severity = last.req.severity

\* An incident whose description names a weapon in capitals was created
\* without a severity and is stored as critical.
C17_Witness ==
    /\ IncidentCreated
    /\ last.req.description = WeaponDescription
    /\ last.req.category = "other"
    /\ last.req.severity = ""
    /\ last.body.incident.severity = "critical"

\* The elections a verified voter of this address may vote in.
EligibleAt(address) ==
    IF address.country # <<"U", "S">> THEN <<"national-2024">>
    ELSE IF address.state \in {<<"N", "Y">>, <<"C", "A">>, <<"T", "X">>, <<"F", "L">>}
    THEN <<"national-2024", "provincial-2024", "municipal-2024">>
    ELSE <<"national-2024", "provincial-2024">>

C18_NotVerifiedNotEligible ==
    \A i \in RegistrationIndexes :
        mockRegistrations[i].verificationStatus # "verified"
            => mockRegistrations[i].eligibleElections = <<>>

C18_SetStatusSetsEligible ==
    \A i \in RegistrationIndexes :
        (Handled("registrationPUT") /\ Success(last')
            /\ mockRegistrations[i].id = last'.req.id)
        => /\ mockRegistrations'[i].verificationStatus = last'.req.verificationStatus
           /\ mockRegistrations'[i].eligibleElections =
                 IF last'.req.verificationStatus = "verified"
                 THEN EligibleAt(mockRegistrations[i].address)
                 ELSE <<>>

C18_CreatedPending ==
    (Handled("registrationPOST") /\ Success(last'))
    => /\ last'.body.verificationStatus = "pending"
       /\ last'.body.eligibleElections = <<>>

\* C18: setStatus to 'verified' sets eligibleElections to national-2024, plus
\* provincial-2024 in the supported country, plus municipal-2024 when moreover
\* the state is one of NY, CA, TX, FL; setStatus to another status empties the
\* list; a new registration is pending with an empty list; so a registration
\* that is not verified has no eligible elections.
C18_EligibleElections ==
    /\ [](C18_NotVerifiedNotEligible)
    /\ [][C18_SetStatusSetsEligible /\ C18_CreatedPending]_vars

\* A voter of a listed state in another country has been verified and is
\* eligible for the national election only.
C18_Witness ==
    /\ last.op = "registrationPUT"
    /\ last.status = 200
    /\ last.req.verificationStatus = "verified"
    /\ \E i \in RegistrationIndexes :
          /\ mockRegistrations[i].id = last.req.id
          /\ mockRegistrations[i].address.state = <<"T", "X">>
          /\ mockRegistrations[i].address.country = <<"C", "A">>
          /\ mockRegistrations[i].eligibleElections = <<"national-2024">>

\* C19: a registration's verificationStatus and eligibleElections are changed
\* only by a setStatus request of an admin: a setStatus request without an
\* admin address, or with an address outside the admin allow-list, leaves
\* every registration unchanged.
C19_StatusByAdminOnly ==
    [][/\ (Handled("registrationPUT") /\ NotAdmin(last'.req.adminAddress))
              => mockRegistrations' = mockRegistrations
       /\ \A i \in RegistrationIndexes :
             (i <= Len(mockRegistrations')
                 /\ mockRegistrations'[i].id = mockRegistrations[i].id
                 /\ \/ mockRegistrations'[i].verificationStatus
                          # mockRegistrations[i].verificationStatus
                    \/ mockRegistrations'[i].eligibleElections
                          # mockRegistrations[i].eligibleElections)
             => /\ Handled("registrationPUT")
                /\ ~NotAdmin(last'.req.adminAddress)]_vars

\* C20: every incident of the store has a status among pending, investigating,
\* resolved, dismissed and a severity among low, medium, high, critical, after
\* any incident creates, updates and deletes.
C20_StatusAndSeverityInRange ==
    \A i \in 1..Len(mockIncidents) :
        /\ mockIncidents[i].status \in {"pending", "investigating", "resolved", "dismissed"}
        /\ mockIncidents[i].severity \in {"low", "medium", "high", "critical"}

\* The request of a create of an incident passes the validation: the
\* description has ten characters or more, the category is one of the five and
\* the severity is absent or one of the four (title, location and reporter of
\* the requests made are valid).
ValidIncidentRequest(req) ==
    /\ ~Blank(req.description)
    /\ Len(req.description) >= 10
    /\ Len(req.description) <= 1000
    /\ req.category \in {"voter_intimidation", "technical_issues", "irregularities",
                         "violence", "other"}
    /\ req.severity \in {"", "low", "medium", "high", "critical"}

C21_ValidCreateStored ==
    (last'.op = "incidentPOST" /\ ValidIncidentRequest(last'.req))
    => /\ last'.status = 201
       /\ mockIncidents' = Append(mockIncidents, last'.body.incident)
       /\ last'.req.totalFiles > 0
            => /\ last'.body.attachments.uploaded
                    = <<Cardinality(last'.req.uploaded), last'.req.totalFiles>>
               /\ Len(last'.body.incident.attachments)
                    = Cardinality(last'.req.uploaded)
               /\ last'.body.attachments.hashes = last'.body.incident.attachments
       /\ last'.req.pinned
            => /\ last'.body.ipfsHash # "null"
               /\ last'.body.incident.ipfsHash = last'.body.ipfsHash
       /\ ~last'.req.pinned
            => /\ last'.body.ipfsHash = "null"
               /\ last'.body.incident.ipfsHash = ""

\* C21: a valid create of an incident is answered 201 and appends the incident
\* to the store whichever attachment uploads fail and whether or not the pin of
\* the payload fails; the response reports 'stored/total' attachments, and
\* after a failed pin the incident has no ipfsHash and the response has
\* ipfsHash null.
C21_CreateSurvivesPinningFailures ==
    [][C21_ValidCreateStored]_vars

\* An incident was created with two files of which only the second was stored
\* and with a failed pin of the payload.
C21_Witness ==
    /\ IncidentCreated
    /\ last.req.totalFiles = 2
    /\ last.req.uploaded = {2}
    /\ ~last.req.pinned
    /\ last.body.ipfsHash = "null"
    /\ last.body.attachments.uploaded = <<1, 2>>
    /\ mockIncidents[Len(mockIncidents)].attachments = <<<<"QmFile", 2>>>>


\* The returned record has every field of a stored incident of its id, with
\* the stored value.
HasLocalValues(record) ==
    \E i \in 1..Len(mockIncidents) :
        LET local == mockIncidents[i] IN
        /\ local.id = record.id
        /\ DOMAIN local \subseteq DOMAIN record
        /\ \A field \in DOMAIN local : record[field] = local[field]

\* The fetch of the payload of the returned record failed in the last list.
FetchFailed(record) ==
    /\ record.ipfsHash # ""
    /\ last.req.outcome[record.id] = "fail"

\* The last request was a list with enrichment.
EnrichedList == last.op = "incidentGET" /\ last.req.includeIpfs

C22_FailedRecordDegraded ==
    EnrichedList
    => \A k \in 1..Len(last.body.incidents) :
          LET record == last.body.incidents[k] IN
          FetchFailed(record)
          => /\ HasLocalValues(record)
             /\ record.dataSource = "local_only"
             /\ "ipfsError" \in DOMAIN record
             /\ "ipfsData" \notin DOMAIN record

C22_OtherRecordsUnaffected ==
    EnrichedList
    => \A k \in 1..Len(last.body.incidents) :
          LET record == last.body.incidents[k] IN
          ~FetchFailed(record)
          => /\ HasLocalValues(record)
             /\ "ipfsError" \notin DOMAIN record
             /\ record.dataSource
                    = IF record.ipfsHash # "" THEN "ipfs_enhanced" ELSE "local_only"
             /\ record.ipfsHash # "" => "ipfsData" \in DOMAIN record

\* The filters a list request supplies: "", 'all' and an absent verified
\* supply none.
Supplied(value) == value \notin {"", "all", "null"}

\* The incident matches every filter the list request supplies.
MatchesRequest(incident, req) ==
    /\ Supplied(req.category) => incident.category = req.category
    /\ Supplied(req.status) => incident.status = req.status
    /\ Supplied(req.severity) => incident.severity = req.severity
    /\ req.reportedBy # <<>>
        => ToLowerCase(incident.reportedBy) = ToLowerCase(req.reportedBy)
    /\ Supplied(req.verified) => (incident.verified <=> req.verified = "true")

\* The stored incidents that match the list request, in store order.
MatchingIncidents(req) ==
    SelectSeq(mockIncidents, LAMBDA incident : MatchesRequest(incident, req))

C22_ListSucceeds ==
    EnrichedList
    => /\ last.status = 200
       /\ last.req.limit >= Len(mockIncidents) /\ last.req.offset = 0
            => IdsOf(last.body.incidents) = IdsOf(MatchingIncidents(last.req))

\* C22: in a list with enrichment, a record whose payload fetch failed is
\* returned with its local values, dataSource 'local_only' and an ipfsError;
\* every other record is returned as without that failure (enhanced when it
\* has a payload, plain local_only when it has none), and the request succeeds
\* with every record that matches.
C22_FetchFailureIsPerRecord ==
    /\ C22_FailedRecordDegraded
    /\ C22_OtherRecordsUnaffected
    /\ C22_ListSucceeds

\* A list with enrichment in which the fetch for incident-001 failed and the
\* fetch for incident-002 returned the payload.
C22_Witness ==
    /\ EnrichedList
    /\ last.req.outcome[<<"incident-001">>] = "fail"
    /\ last.req.outcome[<<"incident-002">>] = "ok"
    /\ \E k \in 1..Len(last.body.incidents) :
          /\ last.body.incidents[k].id = <<"incident-001">>
          /\ last.body.incidents[k].dataSource = "local_only"
    /\ \E k \in 1..Len(last.body.incidents) :
          /\ last.body.incidents[k].id = <<"incident-002">>
          /\ last.body.incidents[k].dataSource = "ipfs_enhanced"

\* The number of records a window of limit records after offset holds of a
\* list of total records.
WindowSize(total, limit, offset) ==
    IF total <= offset THEN 0
    ELSE IF total - offset < limit THEN total - offset ELSE limit

C23_ReturnedMatchFilters ==
    last.op = "incidentGET"
    => \A k \in 1..Len(last.body.incidents) :
          /\ last.body.incidents[k].id \in IdsOf(mockIncidents)
          /\ HasLocalValues(last.body.incidents[k])
          /\ MatchesRequest(last.body.incidents[k], last.req)

C23_NewestFirst ==
    last.op = "incidentGET"
    => \A k \in 1..Len(last.body.incidents), l \in 1..Len(last.body.incidents) :
          k < l => last.body.incidents[k].timestamp
                        >= last.body.incidents[l].timestamp

\* The fields of the returned record that a stored incident has.
LocalValues(record) == [field \in DOMAIN mockIncidents[1] |-> record[field]]

\* The number of records of the list with this timestamp, with a later one.
CountAt(list, t) == Cardinality({i \in 1..Len(list) : list[i].timestamp = t})
CountNewer(list, t) == Cardinality({i \in 1..Len(list) : list[i].timestamp > t})

\* The number of places that are both among lo + 1 .. hi and a + 1 .. b.
Overlap(lo, hi, a, b) ==
    LET from == IF lo > a THEN lo ELSE a
        to == IF hi < b THEN hi ELSE b
    IN IF to > from THEN to - from ELSE 0

\* The returned records are those at the places offset + 1 to offset + limit
\* of the matching records taken newest first. In that order the records of
\* timestamp t take the places after the newer ones, so the window holds as
\* many records of every timestamp as it has of those places; and no stored
\* incident is returned more often than the store holds it.
C23_RequestedWindow ==
    last.op = "incidentGET"
    => LET matching == MatchingIncidents(last.req)
           total == Len(matching)
           returned == last.body.incidents
           offset == last.req.offset
       IN
       /\ last.body.pagination.total = total
       /\ Len(returned) = WindowSize(total, last.req.limit, offset)
       /\ \A i \in 1..total :
             LET t == matching[i].timestamp
                 newer == CountNewer(matching, t)
             IN CountAt(returned, t)
                   = Overlap(newer, newer + CountAt(matching, t),
                             offset, offset + last.req.limit)
       /\ \A k \in 1..Len(returned) :
             Cardinality({l \in 1..Len(returned) :
                             LocalValues(returned[l]) = LocalValues(returned[k])})
               <= Cardinality({i \in 1..total :
                                  matching[i] = LocalValues(returned[k])})

\* C23: a list of incidents with filters returns exactly the records that
\* match every supplied filter (category, status, severity, reporter,
\* verified), restricted to the window of limit records after offset, newest
\* first.
C23_FilteredWindowNewestFirst ==
    /\ C23_ReturnedMatchFilters
    /\ C23_NewestFirst
    /\ C23_RequestedWindow

\* The list with severity critical and status pending returned the one
\* incident that is both, while the store holds a critical incident that is
\* not pending and a pending one that is not critical.
C23_Witness ==
    /\ last.op = "incidentGET"
    /\ last.req.severity = "critical"
    /\ last.req.status = "pending"
    /\ Len(last.body.incidents) = 1
    /\ last.body.incidents[1].severity = "critical"
    /\ last.body.incidents[1].status = "pending"
    /\ \E i \in 1..Len(mockIncidents) :
          mockIncidents[i].severity = "critical" /\ mockIncidents[i].status # "pending"
    /\ \E i \in 1..Len(mockIncidents) :
          mockIncidents[i].severity # "critical" /\ mockIncidents[i].status = "pending"

\* The step handled a create of a registration without walletAddress or email,
\* or an admin's create of an election without title.
OmitsRequiredField ==
    \/ /\ Handled("registrationPOST")
       /\ (last'.req.walletAddress = Undefined \/ last'.req.email = Undefined)
    \/ /\ Handled("createElectionPOST")
       /\ last'.status # 403
       /\ last'.req.title = Undefined

C24_Answered400StoreUnchanged ==
    OmitsRequiredField
    => /\ last'.status = 400
       /\ Len(last'.body) > 0
       /\ mockRegistrations' = mockRegistrations
       /\ mockElections_create' = mockElections_create

\* C24: a create of a voter registration or of an election that omits a
\* required field (walletAddress or email of a registration, title of an
\* election) is answered 400 with a list of validation messages and leaves the
\* store unchanged.
C24_MissingFieldIsValidationError ==
    [][C24_Answered400StoreUnchanged]_vars

\* Two create requests of one route have the same key: voter and election,
\* wallet or national ID or email, candidate wallet, election title (addresses,
\* emails and titles compared without regard to case).
SameKey(r1, r2) ==
    /\ r1.route = r2.route
    /\ CASE r1.route = "votes" ->
              /\ ToLowerCase(r1.body.voterAddress) = ToLowerCase(r2.body.voterAddress)
              /\ r1.body.electionId = r2.body.electionId
         [] r1.route = "voter-registration" ->
              \/ ToLowerCase(r1.body.walletAddress) = ToLowerCase(r2.body.walletAddress)
              \/ r1.body.nationalId = r2.body.nationalId
              \/ ToLowerCase(r1.body.email) = ToLowerCase(r2.body.email)
         [] r1.route = "candidates" ->
              ToLowerCase(r1.body.walletAddress) = ToLowerCase(r2.body.walletAddress)
         [] r1.route = "admin/create-election" ->
              ToLowerCase(r1.body.title) = ToLowerCase(r2.body.title)

Returned(c) == requests[c].phase = "returned"

C25_AtMostOneSucceeds ==
    \A c, d \in Connections :
        (c # d /\ Returned(c) /\ Returned(d)
            /\ SameKey(requests[c].request, requests[d].request))
        => ~(requests[c].status \in {200, 201} /\ requests[d].status \in {200, 201})

C25_StoreNeverHoldsBoth ==
    /\ C1_OneVotePerPair
    /\ C5_UniqueRegistrations
    /\ UniqueWallets(mockCandidates_main)
    /\ C16_UniqueTitles

\* C25: the create handlers of votes, registrations, candidates and elections
\* suspend only before they read the body, so of two requests with the same
\* key that are in flight at one time at most one succeeds, and the store never
\* holds a record of each.
C25_CheckAndInsertAtomic ==
    /\ C25_AtMostOneSucceeds
    /\ C25_StoreNeverHoldsBoth

\* Two casts of one address for one election were suspended at the same time;
\* the one that resumed first succeeded while the other still waited for its
\* body, the other was refused, and the store holds one vote.
C25_Witness ==
    \E c, d \in Connections :
        /\ c # d /\ Returned(c) /\ Returned(d)
        /\ requests[c].request.route = "votes"
        /\ SameKey(requests[c].request, requests[d].request)
        /\ requests[c].status = 200
        /\ d \in requests[c].suspended
        /\ requests[d].status = 400
        /\ Cardinality(StoredVotes) = 1

\* The list is the beginning of the other list.
IsPrefix(list, other) ==
    /\ Len(list) <= Len(other)
    /\ \A i \in 1..Len(list) : other[i] = list[i]

C26_VoteListsOnlyGrow ==
    \A key \in DOMAIN mockVotes :
        /\ key \in DOMAIN mockVotes'
        /\ IsPrefix(mockVotes[key], mockVotes'[key])

C26_UpdateAndInvalidateChangeNothing ==
    (Handled("votePUT") \/ Handled("voteDELETE") \/ Handled("voteGET"))
    => mockVotes' = mockVotes

NamesOneOf(description, words) ==
    \E word \in words : Includes(ToLowerCase(description), word)

\* The severity the claim gives a create without a severity.
SeverityByRule(category, description) ==
    IF HasCriticalKeyword(description) THEN "critical"
    ELSE IF category \in {"violence", "voter_intimidation"} THEN "critical"
    ELSE IF NamesOneOf(description,
                {<<"i", "n", "t", "i", "m", "i", "d", "a", "t", "i", "o", "n">>,
                 <<"m", "a", "l", "f", "u", "n", "c", "t", "i", "o", "n">>,
                 <<"t", "a", "m", "p", "e", "r", "i", "n", "g">>,
                 <<"f", "r", "a", "u", "d">>}) THEN "high"
    ELSE IF NamesOneOf(description,
                {<<"d", "e", "l", "a", "y">>,
                 <<"c", "o", "n", "f", "u", "s", "i", "o", "n">>,
                 <<"t", "e", "c", "h", "n", "i", "c", "a", "l">>,
                 <<"e", "q", "u", "i", "p", "m", "e", "n", "t">>}) THEN "medium"
    ELSE IF category = "technical_issues" THEN "medium"
    ELSE IF category = "irregularities" THEN "high"
    ELSE "low"

\* C27: an incident created without a severity is stored with the severity of
\* the rule: critical keyword, else category violence or voter_intimidation
\* (critical), else high keyword, else medium keyword, else medium for
\* technical_issues, high for irregularities, low otherwise; a valid severity
\* that is supplied is stored as given.
C27_SeverityOrder ==
    IncidentCreated
    => mockIncidents[Len(mockIncidents)].severity
         = IF last.req.severity = ""
           THEN SeverityByRule(last.req.category, last.req.description)
           ELSE last.req.severity

\* An incident of category irregularities whose description has a medium
\* keyword was created without a severity and is stored as medium.
C27_Witness ==
    /\ IncidentCreated
    /\ last.req.severity = ""
    /\ last.req.category = "irregularities"
    /\ last.req.description = DelayDescription
    /\ mockIncidents[Len(mockIncidents)].severity = "medium"

\* No two records of the list have the same id.
UniqueIds(list) ==
    \A i, j \in 1..Len(list) : list[i].id = list[j].id => i = j

\* C28: after any creates, also creates handled at the same clock time, no two
\* candidates of the candidate store share an id and no two elections of the
\* election store share an id.
C28_CreatedIdsUnique ==
    /\ UniqueIds(mockCandidates_main)
    /\ UniqueIds(mockElections_create)

\* A payment is in progress: its write is with the wallet or its transaction
\* waits to be confirmed.
PaymentInProgress == payment.write = "pending" \/ payment.receipt = "confirming"

C29_AtMostOneCallbackEach == Len(payment.callbacks) <= payment.started

C29_ButtonDisabledInProgress == PaymentInProgress => ButtonDisabled(payment)

\* The transaction of the last payment is confirmed and onSuccess has not been
\* called for it, or its write failed and onError has not been called for it.
CallbackOwed ==
    /\ payment.started > Len(payment.callbacks)
    /\ \/ payment.receipt = "confirmed"
       \/ payment.error

\* C29: every payment started by handlePayment ends with exactly one callback,
\* onSuccess once its transaction is confirmed or onError when its write fails,
\* and the pay button is disabled while a payment is in progress.
C29_EveryPaymentEndsWithOneCallback ==
    /\ [](C29_AtMostOneCallbackEach)
    /\ [](C29_ButtonDisabledInProgress)
    /\ CallbackOwed ~> ~CallbackOwed

\* The purchase recorded for an address, whatever the letter case it is
\* written in: the set of the keys of the store that are that address.
PurchasesOf(address) ==
    {k \in DOMAIN premiumUsers : ToLowerCase(k) = ToLowerCase(address)}

\* A premium check answers for an address with a purchase that has not
\* expired: the analytics data; for any other address: 403, premiumRequired.
C30_CheckFollowsExpiry ==
    Handled("premiumGET") /\ ~Falsy(last'.req.address) =>
        LET purchases == PurchasesOf(last'.req.address) IN
        IF \E k \in purchases : now <= premiumUsers[k].expiresAt
        THEN /\ last'.status = 200
             /\ last'.body.data = "analytics"
        ELSE /\ last'.status = 403
             /\ last'.body = [premiumRequired |-> TRUE]

\* A purchase leaves one record for its address, expiring 30 days after the
\* purchase, whatever was recorded before; the other records stay.
C30_PurchaseReplacesExpiry ==
    Handled("premiumPOST") /\ last'.status = 200 =>
        LET purchases == {k \in DOMAIN premiumUsers' :
                            ToLowerCase(k) = ToLowerCase(last'.req.address)} IN
        /\ Cardinality(purchases) = 1
        /\ \A k \in purchases : premiumUsers'[k].expiresAt = now + premiumPeriod
        /\ \A k \in DOMAIN premiumUsers \ purchases :
              k \in DOMAIN premiumUsers' /\ premiumUsers'[k] = premiumUsers[k]

\* Only a purchase changes what is recorded.
C30_OnlyPurchasesRecord ==
    ~(Handled("premiumPOST") /\ last'.status = 200) => premiumUsers' = premiumUsers

\* C30: the premium check returns the analytics data for an address if and
\* only if a purchase is recorded for it, letter case ignored, and the time is
\* not past its expiry, the time of the last purchase plus 30 days; otherwise
\* it answers 403 with premiumRequired. A repeat purchase replaces the expiry.
C30_AccessUntilExpiryOfLastPurchase ==
    [][/\ C30_CheckFollowsExpiry
       /\ C30_PurchaseReplacesExpiry
       /\ C30_OnlyPurchasesRecord]_vars

\* A check at the very instant of expiry, for an address written in upper
\* case whose last purchase was made at 100, returns the data.
C30_Witness ==
    /\ last.op = "premiumGET"
    /\ last.req.address = <<"A">>
    /\ last.status = 200
    /\ last.body.premiumAccess = [expiresAt |-> now, daysRemaining |-> 0]
    /\ now = 100 + premiumPeriod
    /\ premiumUsers[<<"a">>].transactionId = "0xtx2"

====
